---- MODULE Spec2Model ----
(***************************************************************************)
(* A model of the GEM screening pipeline: the Well/FieldOfView records and *)
(* their persistence, the rescue assessor, the completion barrier of the   *)
(* processing-service client, and the round sequencer.                     *)
(*                                                                         *)
(* A FOV identifier "<well>P<instance>" is represented by its instance     *)
(* number, a file "<fov_id>_<category>_<instance>.tif" by the record       *)
(* [fov |-> i, cat |-> c, inst |-> n].  The engine works on one well at a  *)
(* time; disk is the directory of the well it is working on.               *)
(*                                                                         *)
(* The specifications share the variables: SpecRescue (assess_rescue on    *)
(* any directory content), SpecWell (construction, persistence and reload  *)
(* of a Well), SpecBarrier/SpecBarrierFair (wait_for_completion),          *)
(* SpecClient (one bg_removal_client / full_process_client call), SpecFlow *)
(* (run_complete_flow and run_pipeline over a dish), SpecSerial (the JSON  *)
(* codec attribute by attribute), SpecFov (the category map of one         *)
(* FieldOfView), SpecMasks (assign_masks_to_fovs on any masks directory),  *)
(* SpecRatio (_create_regionprops on any measured intensities),            *)
(* SpecWorkers (the per-FOV worker pools of create_stim_masks and          *)
(* update_control_intensities), SpecResend (after_acquisition_rescue),     *)
(* SpecCapture (_take_image_fov statement by statement, with crashes) and  *)
(* SpecResume (run_from_round1 / run_from_round2).                         *)
(***************************************************************************)
EXTENDS Integers, Sequences, FiniteSets, TLC

\* ------------------------------------------------------------- bounds
\* Number of entries of the well grid (FOVs per well).
NumFovs == 2
\* Number of wells of the dish grid.
NumWells == 2
\* Largest timeout handed to wait_for_completion, in poll intervals.
MaxTimeout == 2
\* Largest duration of one status request, in poll intervals.
MaxLatency == 1
\* Largest remaining count the status endpoint reports.
MaxRemaining == 2

\* ---------------------------------------------------- program constants
MEASURE_LABEL == "measure"
CONTROL_LABEL == "control"
REFSEG_LABEL == "refseg"
MASK_LABEL == "mask"
STIM_LABEL == "stim"
IMG_CAT == {MEASURE_LABEL, REFSEG_LABEL, CONTROL_LABEL}
MASK_CAT == {MASK_LABEL, STIM_LABEL}
DEFAULT_CATEGORIES == IMG_CAT \cup MASK_CAT

\* Keys of the well grid: the instance numbers of the FOVs.
well_grid == 1..NumFovs

\* The round markers of the measurement images.
Rounds == {1, 2}

\* Every image file name the imaging loops of rounds 1 and 2 can produce.
RoundFiles == [fov : well_grid, cat : {MEASURE_LABEL, REFSEG_LABEL}, inst : Rounds]

NoPlan == [action |-> "none"]
NoWell == <<>>
NoFile == [tag |-> "no_file"]

VARIABLES
    wait,           \* the running wait_for_completion call: its position, its locals
                    \* and what it has observed so far
    run,            \* the workflow engine: entry point, settings, position, current
                    \* well, imaging-loop cursor, the operator's ligand answer
    jobs,           \* the jobs submitted for the current well, in submission order
    csv_rows,       \* the measurement file: what it holds for each FOV
    hist,           \* what has happened: steps begun and completed for the current
                    \* well, cleanup calls, wells that received jobs
    fov_obj_list,   \* in-memory Well._fov_obj_list: instance -> [contain_positive_cells,
                    \* tiff_paths], or NoWell when the process holds no Well object
    disk,           \* the well directory: its sub-directories, their files, the
                    \* persisted JSON (obj_json) and the measurement file (csv)
    last_op,        \* the operation on the Well that ran last
    rescue_plan,    \* the result of the last assess_rescue call, or NoPlan
    client,         \* one call of bg_removal_client / full_process_client: the
                    \* server settings and environment it runs with, its
                    \* position, the payload it built and what it posted
    serial,         \* one save and reload of a Well through the JSON encoder:
                    \* the object saved, the file content, the object loaded
    fov_obj,        \* one FieldOfView taken alone: its category map as the
                    \* defaultdict it is, and the last call made on it
    pool            \* the per-FOV workers of a parallel step: their positions,
                    \* the temporary and final files they wrote, their results

vars == <<fov_obj_list, disk, last_op, rescue_plan, wait, run, jobs, csv_rows, hist, client, serial, fov_obj, pool>>

engineVars == <<wait, run, jobs, csv_rows, hist, client, serial, fov_obj, pool>>

\* ----------------------------------- values before the engine has started
\* No wait_for_completion call is running.
IdleWait ==
    [pc |-> "idle", has_timeout |-> FALSE, timeout |-> 0, elapsed |-> 0,
     total |-> 0, remaining |-> 0, pbar_n |-> 0,
     first_status |-> "none", last_status |-> "none",
     polls |-> 0, sleeps |-> 0, saw_zero |-> FALSE]

\* No engine is running.
IdleRun ==
    [engine |-> "none", refseg |-> FALSE, control_loop |-> FALSE, timeout |-> 0,
     pc |-> "idle", well |-> 1, cursor |-> 0, sub |-> "primary",
     answer |-> "none", illuminated |-> {}]

NoRows == [i \in well_grid |-> "none"]

NoHist ==
    [done |-> <<>>, active |-> "none",
     cleanup_calls |-> 0, fresh_cleanups |-> 0,
     first_job_cleanups |-> [w \in 1..NumWells |-> 0],
     wells_with_jobs |-> {}, stim_failed |-> {}, leftovers |-> {}]

\* The settings the pipeline is to fill in, as ServerSettings declares them:
\* a setting is <<v>> when it holds the value v and <<>> when it is None.
ServerDefaults == [well_id |-> <<"">>, dst_folder |-> <<"">>, total_fovs |-> <<0>>]

\* No client call is running.
IdleClient ==
    [call |-> "none", pc |-> "idle", server_settings |-> ServerDefaults,
     host_dir |-> FALSE, img_in_host |-> FALSE, cwd_in_host |-> FALSE,
     payload |-> <<>>, posted |-> <<>>, error |-> "none"]

\* Nothing is being saved or reloaded.
IdleSerial ==
    [pc |-> "idle", obj |-> <<>>, file |-> "absent", doc |-> <<>>,
     loaded |-> <<>>, error |-> "none"]

\* A FieldOfView right after construction (an empty defaultdict), no call made.
NoCall == [op |-> "none", raised |-> FALSE, category |-> "", images |-> <<>>]

IdleFov == [tiff_paths |-> <<>>, call |-> NoCall]

\* No parallel step is running.
IdlePool ==
    [phase |-> "idle", tasks |-> {}, pc |-> <<>>, tmp |-> <<>>, written |-> <<>>,
     results |-> <<>>]

EngineIdle ==
    /\ wait = IdleWait
    /\ run = IdleRun
    /\ jobs = <<>>
    /\ csv_rows = NoRows
    /\ hist = NoHist
    /\ client = IdleClient
    /\ serial = IdleSerial
    /\ fov_obj = IdleFov
    /\ pool = IdlePool

\* ------------------------------------------------------- entity model
EmptyPaths == [c \in DEFAULT_CATEGORIES |-> <<>>]

NewFov == [contain_positive_cells |-> TRUE, tiff_paths |-> EmptyPaths]

\* Well.positive_fovs: the fov_ids whose flag is still true.
positive_fovs(fovs) == {i \in well_grid : fovs[i].contain_positive_cells}

\* Well._unpack_fov: one FieldOfView per entry of the well grid.
_unpack_fov == [i \in well_grid |-> NewFov]

\* The path register_img_file builds for "<category>_<instance>" on FOV i.
_bild_img_path(i, cat, inst) == [fov |-> i, cat |-> cat, inst |-> inst]

\* FieldOfView.register_img_file: append the built path to its category's list.
register_img_file(fovs, i, cat, inst) ==
    [fovs EXCEPT ![i].tiff_paths[cat] = Append(@, _bild_img_path(i, cat, inst))]

\* FieldOfView.register_existing_tiff: append an existing file under the
\* category parsed from its name.
register_existing_tiff(fovs, i, path) ==
    [fovs EXCEPT ![i].tiff_paths[path.cat] = Append(@, path)]

\* CustomJSONEncoder: the Well and every FieldOfView wrapped in a tagged record.
CustomJSONEncoder(fovs) ==
    [tag |-> "__Well__",
     fov_obj_list |-> [i \in DOMAIN fovs |->
        [tag |-> "__FieldOfView__",
         instance |-> i,
         contain_positive_cells |-> fovs[i].contain_positive_cells,
         tiff_paths |-> fovs[i].tiff_paths]]]

\* custom_decoder, dispatching on the tag, then FieldOfView.from_dict.
custom_decoder(doc) ==
    [i \in DOMAIN doc.fov_obj_list |->
        [contain_positive_cells |-> doc.fov_obj_list[i].contain_positive_cells,
         tiff_paths |-> doc.fov_obj_list[i].tiff_paths]]

\* ------------------------------------------------- directory/state reset
NoDisk ==
    [well_dir |-> FALSE, config_dir |-> FALSE, img_dir |-> FALSE, mask_dir |-> FALSE,
     obj_json |-> NoFile, csv |-> FALSE, img_files |-> {}, mask_files |-> {}]

\* A reset that walks over the images and config folders and the measurement
\* file only.
ResetFolderKeepsMasks(d) ==
    [d EXCEPT !.config_dir = FALSE, !.obj_json = NoFile,
              !.img_dir = FALSE, !.img_files = {},
              !.csv = FALSE]

\* Well._reset_folder: remove the config, images and masks folders and the
\* measurement file of the well.
_reset_folder(d) ==
    [d EXCEPT !.config_dir = FALSE, !.obj_json = NoFile,
              !.img_dir = FALSE, !.img_files = {},
              !.mask_dir = FALSE, !.mask_files = {},
              !.csv = FALSE]

\* Well._setup_dir for the well, config, images and masks directories
\* (mkdir with exist_ok: existing content is kept).
_setup_dirs(d) ==
    [d EXCEPT !.config_dir = TRUE, !.img_dir = TRUE, !.mask_dir = TRUE]

\* Well.to_json
to_json(d, fovs) == [d EXCEPT !.obj_json = CustomJSONEncoder(fovs)]

\* The directory state Well.__post_init__ leaves behind.
post_init_disk(d) ==
    to_json(_setup_dirs(_reset_folder([d EXCEPT !.well_dir = TRUE])), _unpack_fov)

\* The disk right after constructing a Well whose flags are those of fovs.
FreshDisk(fovs) == to_json(post_init_disk(NoDisk), fovs)

\* ------------------------------------------------------ rescue assessor
_count_expected_images(fovs) == Cardinality(positive_fovs(fovs))

\* img_dir.glob("*_<cat>_<inst>.tif")
glob_img(d, cat, inst) == {f \in d.img_files : f.cat = cat /\ f.inst = inst}

extract_fov_id(f) == f.fov

_count_actual_images_in_directory(fovs, d) ==
    LET expected_fov_ids == positive_fovs(fovs) IN
    IF ~d.img_dir
    THEN [refseg_1 |-> 0, refseg_2 |-> 0, measure_1 |-> 0, measure_2 |-> 0,
          round_1_complete_pairs |-> 0,
          round_2_complete_pairs |-> 0,
          missing_round1 |-> expected_fov_ids,
          missing_round2 |-> {},
          complete_r1_r2_pairs |-> {}]
    ELSE
    LET refseg_1_files == glob_img(d, REFSEG_LABEL, 1)
        refseg_2_files == glob_img(d, REFSEG_LABEL, 2)
        measure_1_files == glob_img(d, MEASURE_LABEL, 1)
        measure_2_files == glob_img(d, MEASURE_LABEL, 2)
        refseg_1_fovs == {extract_fov_id(f) : f \in refseg_1_files}
        refseg_2_fovs == {extract_fov_id(f) : f \in refseg_2_files}
        measure_1_fovs == {extract_fov_id(f) : f \in measure_1_files}
        measure_2_fovs == {extract_fov_id(f) : f \in measure_2_files}
        round_1_complete_fovs == refseg_1_fovs \cap measure_1_fovs
        round_2_complete_fovs == refseg_2_fovs \cap measure_2_fovs
        missing_round1 == expected_fov_ids \ round_1_complete_fovs
        missing_round2 ==
            IF Cardinality(round_1_complete_fovs) = Cardinality(expected_fov_ids)
            THEN round_1_complete_fovs \ round_2_complete_fovs
            ELSE {}
    IN [refseg_1 |-> Cardinality(refseg_1_files),
        refseg_2 |-> Cardinality(refseg_2_files),
        measure_1 |-> Cardinality(measure_1_files),
        measure_2 |-> Cardinality(measure_2_files),
        round_1_complete_pairs |-> Cardinality(round_1_complete_fovs),
        round_2_complete_pairs |-> Cardinality(round_2_complete_fovs),
        missing_round1 |-> missing_round1,
        missing_round2 |-> missing_round2,
        complete_r1_r2_pairs |-> round_1_complete_fovs \cap round_2_complete_fovs]

\* "any round 2 files exist"
HasRound2FilesRefsegIgnored(actual_images) == actual_images.measure_2 > 0

has_round_2_files(actual_images) ==
    actual_images.refseg_2 > 0 \/ actual_images.measure_2 > 0

\* The status decision with the last else-branch dropped.
StatusNoLastElse(stim, r1, r2) ==
    IF ~stim
    THEN (IF r1 THEN "ready_for_round2" ELSE "continue_round1")
    ELSE (IF r1
          THEN (IF r2 THEN "complete" ELSE "continue_round2")
          ELSE "unknown")

\* The status decision of _assess_image_scanning_state.
scanning_status(stim, r1, r2) ==
    IF ~stim
    THEN (IF r1 THEN "ready_for_round2" ELSE "continue_round1")
    ELSE (IF r1
          THEN (IF r2 THEN "complete" ELSE "continue_round2")
          ELSE "analyze_complete_pairs_only")

_assess_image_scanning_state(fovs, d) ==
    LET expected_fovs == _count_expected_images(fovs)
        actual_images == _count_actual_images_in_directory(fovs, d)
        stim == has_round_2_files(actual_images)
        r1 == actual_images.round_1_complete_pairs = expected_fovs
        r2 == actual_images.round_2_complete_pairs = expected_fovs
    IN [expected_fovs |-> expected_fovs,
        actual_images |-> actual_images,
        stimulation_occurred |-> stim,
        round_1_complete |-> r1,
        round_2_complete |-> r2,
        status |-> scanning_status(stim, r1, r2)]

assess_rescue(fovs, d) ==
    LET scanning_state == _assess_image_scanning_state(fovs, d)
        actual_images == scanning_state.actual_images
        status == scanning_state.status
        details ==
            CASE status = "continue_round1" ->
                    [missing_fovs |-> actual_images.missing_round1, fov_list |-> {}]
              [] status = "continue_round2" ->
                    [missing_fovs |-> actual_images.missing_round2, fov_list |-> {}]
              [] status = "analyze_complete_pairs_only" ->
                    [missing_fovs |-> {}, fov_list |-> actual_images.complete_r1_r2_pairs]
              [] OTHER -> [missing_fovs |-> {}, fov_list |-> {}]
    IN [action |-> status, details |-> details, scanning_state |-> scanning_state]

\* ------------------------------------------- specification: the assessor
\* Any flags and any content of the images directory, as an interrupted run
\* (or an operator) may have left them; run.refseg is the do_refseg setting
\* the interrupted run was started with.
InitRescue ==
    /\ fov_obj_list \in [well_grid -> {NewFov, [NewFov EXCEPT !.contain_positive_cells = FALSE]}]
    /\ \E exists \in BOOLEAN, files \in SUBSET RoundFiles :
          disk = [FreshDisk(fov_obj_list) EXCEPT
                      !.img_dir = exists,
                      !.img_files = IF exists THEN files ELSE {}]
    /\ last_op = "none"
    /\ rescue_plan = NoPlan
    /\ \E do_refseg \in BOOLEAN : run = [IdleRun EXCEPT !.refseg = do_refseg]
    /\ wait = IdleWait
    /\ jobs = <<>>
    /\ csv_rows = NoRows
    /\ hist = NoHist
    /\ client = IdleClient
    /\ serial = IdleSerial
    /\ fov_obj = IdleFov
    /\ pool = IdlePool

\* One more image of an imaging loop reaches the directory before the rescue.
RescueWriteImage ==
    /\ rescue_plan = NoPlan
    /\ disk.img_dir
    /\ \E f \in RoundFiles \ disk.img_files :
          disk' = [disk EXCEPT !.img_files = @ \cup {f}]
    /\ UNCHANGED <<fov_obj_list, last_op, rescue_plan, engineVars>>

\* An assessor that creates the images directory it inspects.
RescueAssessMakesDir ==
    /\ rescue_plan = NoPlan
    /\ rescue_plan' = assess_rescue(fov_obj_list, disk)
    /\ disk' = [disk EXCEPT !.img_dir = TRUE]
    /\ UNCHANGED <<fov_obj_list, last_op, engineVars>>

\* The call assess_rescue(well_obj).
RescueAssess ==
    /\ rescue_plan = NoPlan
    /\ rescue_plan' = assess_rescue(fov_obj_list, disk)
    /\ UNCHANGED <<fov_obj_list, disk, last_op, engineVars>>

\* A second call assess_rescue(well_obj) on the state the first call left.
RescueAssessAgain ==
    /\ rescue_plan # NoPlan
    /\ last_op = "none"
    /\ rescue_plan' = assess_rescue(fov_obj_list, disk)
    /\ last_op' = "assess_rescue_again"
    /\ UNCHANGED <<fov_obj_list, disk, engineVars>>

NextRescue == RescueWriteImage \/ RescueAssess \/ RescueAssessAgain

SpecRescue == InitRescue /\ [][NextRescue]_vars

\* ------------------------------- specification: a well and its directory
\* The process starts with no Well object and no well directory.
InitWell ==
    /\ fov_obj_list = NoWell
    /\ disk = NoDisk
    /\ last_op = "none"
    /\ rescue_plan = NoPlan
    /\ EngineIdle

\* What an earlier attempt left under the well directory.
leftovers(d) ==
    {k \in {"images", "masks", "measurements", "json"} :
        \/ k = "images" /\ d.img_files # {}
        \/ k = "masks" /\ d.mask_files # {}
        \/ k = "measurements" /\ d.csv
        \/ k = "json" /\ d.obj_json # NoFile}

\* Well(run_dir, run_id, well_grid, well): __post_init__.  hist.leftovers
\* notes what the constructor found under the well directory.
WellConstruct ==
    /\ fov_obj_list' = _unpack_fov
    /\ disk' = post_init_disk(disk)
    /\ last_op' = "construct"
    /\ hist' = [hist EXCEPT !.leftovers = leftovers(disk)]
    /\ UNCHANGED <<rescue_plan, wait, run, jobs, csv_rows, client, serial, fov_obj, pool>>

\* The next measure image (round r of FOV i) the sequential imaging loop takes.
NextCapture(fovs) ==
    {c \in [fov : well_grid, round : Rounds] :
        /\ Len(fovs[c.fov].tiff_paths[MEASURE_LABEL]) = c.round - 1
        /\ \A j \in well_grid :
              Len(fovs[j].tiff_paths[MEASURE_LABEL]) =
                  IF j < c.fov THEN c.round ELSE c.round - 1}

\* One capture of the imaging loop: the path is registered and the file written.
WellCapture ==
    /\ fov_obj_list # NoWell
    /\ disk.img_dir
    /\ \E c \in NextCapture(fov_obj_list) :
          /\ fov_obj_list' = register_img_file(fov_obj_list, c.fov, MEASURE_LABEL, c.round)
          /\ disk' = [disk EXCEPT !.img_files =
                          @ \cup {_bild_img_path(c.fov, MEASURE_LABEL, c.round)}]
    /\ last_op' = "capture"
    /\ UNCHANGED <<rescue_plan, engineVars>>

\* The processing service writes the masks of the images it received.
WellServiceMasks ==
    /\ disk.mask_dir
    /\ disk.img_files # {}
    /\ disk' = [disk EXCEPT !.mask_files =
                    {[fov |-> f.fov, cat |-> MASK_LABEL, inst |-> f.inst] : f \in disk.img_files}]
    /\ last_op' = "service"
    /\ UNCHANGED <<fov_obj_list, rescue_plan, engineVars>>

\* extract_measure_intensities writes the measurement file.
WellWriteCsv ==
    /\ fov_obj_list # NoWell
    /\ disk.well_dir
    /\ ~disk.csv
    /\ disk' = [disk EXCEPT !.csv = TRUE]
    /\ last_op' = "write_csv"
    /\ UNCHANGED <<fov_obj_list, rescue_plan, engineVars>>

\* well_obj.to_json()
WellToJson ==
    /\ fov_obj_list # NoWell
    /\ disk.config_dir
    /\ disk' = to_json(disk, fov_obj_list)
    /\ last_op' = "to_json"
    /\ UNCHANGED <<fov_obj_list, rescue_plan, engineVars>>

\* The process ends (quit, crash): the in-memory Well is gone.
WellProcessExit ==
    /\ fov_obj_list # NoWell
    /\ fov_obj_list' = NoWell
    /\ last_op' = "exit"
    /\ UNCHANGED <<disk, rescue_plan, engineVars>>

\* Well.from_json run through the constructor: __post_init__ resets the folders.
WellFromJsonViaInit ==
    /\ disk.obj_json # NoFile
    /\ fov_obj_list' = custom_decoder(disk.obj_json)
    /\ disk' = post_init_disk(disk)
    /\ last_op' = "from_json"
    /\ UNCHANGED <<rescue_plan, engineVars>>

\* Well.from_json(path), as _retrieve_saved_wells calls it: the file is read and
\* decoded and the fields are set on a raw object; no directory is touched.
WellFromJson ==
    /\ disk.obj_json # NoFile
    /\ fov_obj_list' = custom_decoder(disk.obj_json)
    /\ last_op' = "from_json"
    /\ UNCHANGED <<disk, rescue_plan, engineVars>>

NextWell ==
    \/ WellConstruct
    \/ WellCapture
    \/ WellServiceMasks
    \/ WellWriteCsv
    \/ WellToJson
    \/ WellProcessExit
    \/ WellFromJson

SpecWell == InitWell /\ [][NextWell]_vars

\* --------------------------------------------------- completion barrier
\* wait_for_completion(well_id, poll_interval, timeout).  Time is counted in
\* poll intervals; the clock reading time.monotonic() - start_time is kept
\* up to ElapsedCap, a value beyond every timeout.
PollInterval == 1

ElapsedCap == MaxTimeout + 1

\* The counters of requests and sleeps are kept up to CountCap.
CountCap == MaxTimeout + 1

Min(a, b) == IF a < b THEN a ELSE b

\* What a status request can come back with: a status document, or a failure
\* of the request (requests.get raising, raise_for_status raising).
StatusResponses ==
    [ok : {TRUE}, status : {"processing", "finished", "unknown"}, remaining : 0..MaxRemaining]
        \cup {[ok |-> FALSE, status |-> "none", remaining |-> 0]}

\* The call is entered with the given timeout (has_timeout false: timeout None).
StartWait(has_timeout, timeout) ==
    [IdleWait EXCEPT !.pc = "first_poll", !.has_timeout = has_timeout, !.timeout = timeout]

Observed(w, data) ==
    [w EXCEPT !.polls = Min(@ + 1, CountCap),
              !.last_status = data.status,
              !.first_status = IF @ = "none" THEN data.status ELSE @,
              !.saw_zero = @ \/ (data.ok /\ data.status = "processing" /\ data.remaining = 0)]

\* What is left of a call that has ended: how it ended and what it had
\* observed; its locals are gone.
Outcome(w) ==
    [IdleWait EXCEPT !.pc = w.pc, !.last_status = w.last_status, !.saw_zero = w.saw_zero]

\* The first poll with a 'finished' answer sent into the loop like any other.
FirstReactionNoEarlyReturn(w, data) ==
    IF ~data.ok THEN [w EXCEPT !.pc = "http_error"]
    ELSE [w EXCEPT !.total = data.remaining, !.remaining = data.remaining,
                   !.elapsed = 0, !.pc = "check"]

\* "First poll to bootstrap the bar": return on 'finished', else size the
\* progress bar and take the start time.
first_reaction(w, data) ==
    IF ~data.ok THEN [w EXCEPT !.pc = "http_error"]
    ELSE IF data.status = "finished" THEN [w EXCEPT !.pc = "returned"]
    ELSE [w EXCEPT !.total = data.remaining, !.remaining = data.remaining,
                   !.elapsed = 0, !.pc = "check"]

\* The timeout test that never fires.
TimedOutNever(has_timeout, timeout, elapsed) == FALSE

\* timeout is not None and (time.monotonic() - start_time) > timeout
timed_out(has_timeout, timeout, elapsed) == has_timeout /\ elapsed > timeout

\* The loop leaving as soon as nothing remains, whatever the status says.
LoopReactionZeroReturns(w, data) ==
    IF ~data.ok THEN [w EXCEPT !.pc = "http_error"]
    ELSE IF data.status = "processing"
    THEN LET done == w.remaining - data.remaining IN
         IF data.remaining = 0 THEN [w EXCEPT !.pc = "returned"]
         ELSE IF done > 0
         THEN [w EXCEPT !.pbar_n = @ + done, !.remaining = data.remaining, !.pc = "check"]
         ELSE [w EXCEPT !.pc = "check"]
    ELSE IF data.status = "finished"
    THEN [w EXCEPT !.pbar_n = @ + w.remaining, !.pc = "returned"]
    ELSE [w EXCEPT !.pc = "check"]

\* The body of the loop after the request: 'processing' advances the bar,
\* 'finished' fills it and leaves, anything else goes round again.
loop_reaction(w, data) ==
    IF ~data.ok THEN [w EXCEPT !.pc = "http_error"]
    ELSE IF data.status = "processing"
    THEN LET done == w.remaining - data.remaining IN
         IF done > 0
         THEN [w EXCEPT !.pbar_n = @ + done, !.remaining = data.remaining, !.pc = "check"]
         ELSE [w EXCEPT !.pc = "check"]
    ELSE IF data.status = "finished"
    THEN [w EXCEPT !.pbar_n = @ + w.remaining, !.pc = "returned"]
    ELSE [w EXCEPT !.pc = "check"]

\* requests.get(status_url) before the loop, and what follows from the answer.
WaitFirstPoll ==
    /\ wait.pc = "first_poll"
    /\ \E data \in StatusResponses :
          wait' = first_reaction(Observed(wait, data), data)
    /\ UNCHANGED <<fov_obj_list, disk, last_op, rescue_plan, client, serial, fov_obj, pool, run, jobs, csv_rows, hist>>

\* The head of the loop: raise TimeoutError or go on to sleep.
WaitCheckTimeout ==
    /\ wait.pc = "check"
    /\ wait' = [wait EXCEPT !.pc =
                    IF timed_out(wait.has_timeout, wait.timeout, wait.elapsed)
                    THEN "timeout_error" ELSE "sleep"]
    /\ UNCHANGED <<fov_obj_list, disk, last_op, rescue_plan, client, serial, fov_obj, pool, run, jobs, csv_rows, hist>>

\* time.sleep(poll_interval)
WaitSleep ==
    /\ wait.pc = "sleep"
    /\ wait' = [wait EXCEPT !.pc = "poll",
                            !.elapsed = Min(@ + PollInterval, ElapsedCap),
                            !.sleeps = Min(@ + 1, CountCap)]
    /\ UNCHANGED <<fov_obj_list, disk, last_op, rescue_plan, client, serial, fov_obj, pool, run, jobs, csv_rows, hist>>

\* requests.get(status_url) in the loop, taking some time, and the reaction.
WaitPoll ==
    /\ wait.pc = "poll"
    /\ \E data \in StatusResponses, latency \in 0..MaxLatency :
          wait' = loop_reaction(
                      Observed([wait EXCEPT !.elapsed = Min(@ + latency, ElapsedCap)], data),
                      data)
    /\ UNCHANGED <<fov_obj_list, disk, last_op, rescue_plan, client, serial, fov_obj, pool, run, jobs, csv_rows, hist>>

\* ------------------------------------------ specification: the barrier
InitBarrier ==
    /\ fov_obj_list = NoWell
    /\ disk = NoDisk
    /\ last_op = "none"
    /\ rescue_plan = NoPlan
    /\ run = IdleRun
    /\ jobs = <<>>
    /\ csv_rows = NoRows
    /\ hist = NoHist
    /\ client = IdleClient
    /\ serial = IdleSerial
    /\ fov_obj = IdleFov
    /\ pool = IdlePool
    /\ \E has_timeout \in BOOLEAN, timeout \in 0..MaxTimeout :
          /\ (~has_timeout => timeout = 0)
          /\ wait = StartWait(has_timeout, timeout)

NextBarrier == WaitFirstPoll \/ WaitCheckTimeout \/ WaitSleep \/ WaitPoll

SpecBarrier == InitBarrier /\ [][NextBarrier]_vars

\* The Python thread running the call always takes its next step.
SpecBarrierFair == InitBarrier /\ [][NextBarrier]_vars /\ WF_vars(NextBarrier)

\* ------------------------------------------------------ workflow engine
\* Two entry points run a whole dish: run_complete_flow (workflows.py) and
\* run_pipeline (pipeline_workflows.py).  Each function is modelled by its own
\* body; where a caller of another revision passes arguments the callee does
\* not take, the call is modelled as reaching the callee's body.
Engines == {"run_complete_flow", "run_pipeline"}

ImagingLoops == {"round1", "round2", "control_1", "control_2"}

\* The steps of one well, in the order the claims name them.
StepOrder ==
    <<"round1_imaging", "ligand_gate", "round2_imaging", "completion_barrier",
      "mask_reconciliation", "measurement_extraction", "selection_tool",
      "stim_mask_generation", "illumination", "control_update">>

\* imaging_loop label of each imaging position: "<category>_<instance>".
loop_label(pc) ==
    CASE pc = "round1" -> [cat |-> MEASURE_LABEL, inst |-> 1]
      [] pc = "round2" -> [cat |-> MEASURE_LABEL, inst |-> 2]
      [] pc = "control_1" -> [cat |-> CONTROL_LABEL, inst |-> 1]
      [] pc = "control_2" -> [cat |-> CONTROL_LABEL, inst |-> 2]

step_of(pc) ==
    CASE pc = "round1" -> "round1_imaging"
      [] pc = "round2" -> "round2_imaging"
      [] OTHER -> "illumination"

\* Which imaging routine runs the loop: scan_cells/_image_all_fov for the two
\* measurement rounds of run_pipeline, image_fovs everywhere else.
imaging_impl(engine, pc) ==
    IF engine = "run_pipeline" /\ pc \in {"round1", "round2"}
    THEN "scan_cells" ELSE "image_fovs"

\* use_refseg of the imaging loop: the setting, switched off for control loops.
use_refseg(refseg, pc) == refseg /\ pc \in {"round1", "round2"}

\* The n-th entry of the whole FOV list, whatever its flag.
NthOfAllFovs(fovs, n) ==
    CHOOSE i \in DOMAIN fovs : Cardinality({j \in DOMAIN fovs : j < i}) = n - 1

\* The n-th entry of fov_lst = well_obj.positive_fovs (grid order).
nth_positive(fovs, n) ==
    CHOOSE i \in positive_fovs(fovs) :
        Cardinality({j \in positive_fovs(fovs) : j < i}) = n - 1

\* image_fovs: the primary image goes to background subtraction only when a
\* reference-segmentation image follows it, to the full process otherwise.
image_fovs_job_kind(refseg_on, cat) ==
    IF refseg_on /\ cat # REFSEG_LABEL THEN "bg_only" ELSE "full_process"

\* _take_image_fov: every image is posted to /process.
job_kind(impl, refseg_on, cat) ==
    IF impl = "scan_cells" THEN "full_process" ELSE image_fovs_job_kind(refseg_on, cat)

\* image_fovs persists the well when its loop is over.
image_fovs_persists == TRUE

\* Whether the imaging routine calls well_obj.to_json() when the loop at pc
\* is over: scan_cells does so after the second loop only.
persists_at_end(impl, pc) ==
    IF impl = "scan_cells" THEN pc = "round2" ELSE image_fovs_persists

\* The statement after each imaging loop.
after_imaging(pc) ==
    CASE pc = "round1" -> "gate"
      [] pc = "round2" -> "barrier"
      [] pc = "control_1" -> "illuminate_cells"
      [] pc = "control_2" -> "update_control"

\* Where the engine goes after the ligand prompt.  scan_round2 drops the value
\* prompt_to_continue returns; scan_cells raises on a negative answer, which
\* ends run_pipeline.
gate_outcome(engine, ans) ==
    IF engine = "run_pipeline" /\ ans = "quit" THEN "aborted" ELSE "round2"

\* The cell selection skipped: stim masks come straight after the barrier.
AfterBarrierSkipsSelection == "stim_masks"

\* The statement after wait_for_completion: select_cells / _execute_well_analysis.
after_barrier == "assign_masks"

\* The loop over the wells coming back to the cleanup call.
AfterWellCleanupAgain == "cleanup"

\* The end of the body of "for well, well_grid in dish_grid.items()".
after_well == "new_well"

Completed(h, s) == [h EXCEPT !.done = Append(@, s), !.active = "none"]

\* The first job of a well notes how many cleanup calls came since the jobs
\* of the well before it.
RecordJob(h, w) ==
    IF w \in h.wells_with_jobs THEN h
    ELSE [h EXCEPT !.wells_with_jobs = @ \cup {w},
                   !.first_job_cleanups[w] = h.fresh_cleanups,
                   !.fresh_cleanups = 0]

\* The mask files of FOV i in the order the directory listing yields them.
glob_masks(d, i, asc) ==
    LET S == {f \in d.mask_files : f.cat = MASK_LABEL /\ f.fov = i}
        lo == {f \in S : \A g \in S : f.inst <= g.inst}
        hi == S \ lo
        seq(T) == IF T = {} THEN <<>> ELSE <<CHOOSE f \in T : TRUE>>
    IN IF asc THEN seq(lo) \o seq(hi) ELSE seq(hi) \o seq(lo)

RECURSIVE register_all(_, _, _)
register_all(fovs, i, paths) ==
    IF paths = <<>> THEN fovs
    ELSE register_all(register_existing_tiff(fovs, i, Head(paths)), i, Tail(paths))

\* A reconciliation that keeps in the well only the FOVs it found a mask for.
AssignMasksDropsUnmasked(fovs, d, asc) ==
    [i \in {j \in positive_fovs(fovs) : glob_masks(d, j, asc[j]) # <<>>} |->
        register_all(fovs, i, glob_masks(d, i, asc[i]))[i]]

\* assign_masks_to_fovs past its early returns: every mask file of a positive
\* FOV is registered, in listing order.
assign_masks(fovs, d, asc) ==
    [i \in well_grid |->
        IF i \in positive_fovs(fovs)
        THEN register_all(fovs, i, glob_masks(d, i, asc[i]))[i]
        ELSE fovs[i]]

\* _regionprops_wrapper accepts a FOV with two images and two masks (for the
\* control pass: one or two stim masks).
regionprops_ok(fov, is_control) ==
    IF is_control
    THEN Len(fov.tiff_paths[CONTROL_LABEL]) = 2 /\ Len(fov.tiff_paths[STIM_LABEL]) \in {1, 2}
    ELSE Len(fov.tiff_paths[MEASURE_LABEL]) = 2 /\ Len(fov.tiff_paths[MASK_LABEL]) = 2

\* A worker that returns early on a FOV without flagged rows and leaves its
\* flag alone.
ProcessOneFovKeepsFlag(fovs, i, rows) ==
    IF rows[i] # "selected"
    THEN fovs
    ELSE register_img_file(fovs, i, STIM_LABEL, 1)

\* _process_one_fov: no row flagged "process" clears the flag of the FOV,
\* otherwise the stim mask is registered.
_process_one_fov(fovs, i, rows) ==
    IF rows[i] # "selected"
    THEN [fovs EXCEPT ![i].contain_positive_cells = FALSE]
    ELSE register_img_file(fovs, i, STIM_LABEL, 1)

\* _process_one_fov leaving through its except clause: a failure while
\* reading the mask comes before register_img_file, a failure in
\* imwrite_atomic after it.
_process_one_fov_raises(fovs, i, stage) ==
    IF stage = "read" THEN fovs
    ELSE register_img_file(fovs, i, STIM_LABEL, 1)

\* FieldOfView.load_images(STIM_LABEL) gives at least one image: a stim path
\* is registered and every registered file can be read.
stim_loaded(fov, d) ==
    /\ Len(fov.tiff_paths[STIM_LABEL]) > 0
    /\ \A k \in 1..Len(fov.tiff_paths[STIM_LABEL]) :
          fov.tiff_paths[STIM_LABEL][k] \in d.mask_files

\* A stimulation loop that passes over the FOVs it has no mask for.
IlluminateCellsSkipsUnmasked(fovs, d) ==
    [raised |-> FALSE,
     stimulated |-> {i \in positive_fovs(fovs) : stim_loaded(fovs[i], d)}]

\* _illuminate_cells: the positive FOVs are visited in grid order; each is
\* stimulated through its last stim mask, and the first one whose masks
\* cannot be loaded raises, which ends the loop.
_illuminate_cells(fovs, d) ==
    LET pos == positive_fovs(fovs)
        bad == {i \in pos : ~stim_loaded(fovs[i], d)}
    IN [raised |-> bad # {},
        stimulated |-> {i \in pos : \A b \in bad : i < b}]

\* cleanup_stale(): POST /cleanup/<HOST_PREFIX>, before the loop over the wells.
FlowCleanup ==
    /\ run.pc = "cleanup"
    /\ run' = [run EXCEPT !.pc = "new_well"]
    /\ hist' = [hist EXCEPT !.cleanup_calls = @ + 1, !.fresh_cleanups = @ + 1]
    /\ UNCHANGED <<fov_obj_list, disk, last_op, rescue_plan, client, serial, fov_obj, pool, wait, jobs, csv_rows>>

\* The head of the loop over dish_grid: the next well gets a fresh Well object
\* in its own directory, or the loop is over.
FlowNewWell ==
    /\ run.pc = "new_well"
    /\ IF run.well > NumWells
       THEN /\ run' = [run EXCEPT !.pc = "finished"]
            /\ UNCHANGED <<fov_obj_list, disk, wait, jobs, csv_rows, hist>>
       ELSE /\ fov_obj_list' = _unpack_fov
            /\ disk' = post_init_disk(NoDisk)
            /\ run' = [run EXCEPT !.pc = "round1", !.cursor = 0, !.sub = "primary",
                                  !.answer = "none", !.illuminated = {}]
            /\ wait' = IdleWait
            /\ jobs' = <<>>
            /\ csv_rows' = NoRows
            /\ hist' = [hist EXCEPT !.done = <<>>, !.active = "none",
                                    !.stim_failed = {}]
    /\ UNCHANGED <<last_op, rescue_plan, client, serial, fov_obj, pool>>

\* One pass of an imaging loop: the image of the next positive FOV is written
\* and registered and its job is submitted; with a reference-segmentation
\* channel, that image follows the primary one for the same FOV.
FlowCapture ==
    /\ run.pc \in ImagingLoops
    /\ run.cursor < Cardinality(positive_fovs(fov_obj_list))
    /\ LET i == nth_positive(fov_obj_list, run.cursor + 1)
           lab == loop_label(run.pc)
           refseg_on == use_refseg(run.refseg, run.pc)
           cat == IF run.sub = "refseg" THEN REFSEG_LABEL ELSE lab.cat
           path == _bild_img_path(i, cat, lab.inst)
           more == run.sub = "primary" /\ refseg_on
           kind == job_kind(imaging_impl(run.engine, run.pc), refseg_on, cat)
       IN /\ fov_obj_list' = register_img_file(fov_obj_list, i, cat, lab.inst)
          /\ disk' = [disk EXCEPT !.img_files = @ \cup {path}]
          /\ jobs' = Append(jobs, [file |-> path, kind |-> kind, well |-> run.well])
          /\ run' = [run EXCEPT !.sub = IF more THEN "refseg" ELSE "primary",
                                !.cursor = IF more THEN @ ELSE @ + 1]
          /\ hist' = RecordJob([hist EXCEPT !.active = step_of(run.pc)], run.well)
    /\ UNCHANGED <<last_op, rescue_plan, client, serial, fov_obj, pool, wait, csv_rows>>

\* The imaging loop is over: the routine persists the well (or not) and
\* returns; after round 2 the engine enters wait_for_completion.
FlowImagingEnd ==
    /\ run.pc \in ImagingLoops
    /\ run.cursor = Cardinality(positive_fovs(fov_obj_list))
    /\ LET nxt == after_imaging(run.pc)
           h == IF run.pc = "control_1"
                THEN [hist EXCEPT !.active = "illumination"]
                ELSE Completed(hist, step_of(run.pc))
       IN /\ disk' = IF persists_at_end(imaging_impl(run.engine, run.pc), run.pc)
                     THEN to_json(disk, fov_obj_list) ELSE disk
          /\ run' = [run EXCEPT !.pc = nxt, !.cursor = 0]
          /\ wait' = IF nxt = "barrier" THEN StartWait(TRUE, run.timeout) ELSE wait
          /\ hist' = IF nxt = "barrier"
                     THEN [h EXCEPT !.active = "completion_barrier"] ELSE h
    /\ UNCHANGED <<fov_obj_list, last_op, rescue_plan, client, serial, fov_obj, pool, jobs, csv_rows>>

\* prompt_to_continue(ADD_LIGAND_PROMPT): the operator continues or quits.
FlowLigandGate ==
    /\ run.pc = "gate"
    /\ \E ans \in {"continue", "quit"} :
          run' = [run EXCEPT !.answer = ans, !.pc = gate_outcome(run.engine, ans)]
    /\ hist' = Completed(hist, "ligand_gate")
    /\ UNCHANGED <<fov_obj_list, disk, last_op, rescue_plan, client, serial, fov_obj, pool, wait, jobs, csv_rows>>

\* wait_for_completion has ended and its frame is dropped.  If it returned,
\* the engine goes on; by then the service has written both masks of the FOVs
\* it could segment.  If it raised, the exception ends the run.
FlowAfterBarrier ==
    /\ run.pc = "barrier"
    /\ wait.pc \in {"returned", "timeout_error", "http_error"}
    /\ IF wait.pc = "returned"
       THEN \E delivered \in SUBSET positive_fovs(fov_obj_list) :
              /\ disk' = [disk EXCEPT !.mask_files = @ \cup
                            {[fov |-> i, cat |-> MASK_LABEL, inst |-> r] :
                                i \in delivered, r \in Rounds}]
              /\ run' = [run EXCEPT !.pc = after_barrier]
              /\ hist' = Completed(hist, "completion_barrier")
       ELSE /\ run' = [run EXCEPT !.pc = "aborted"]
            /\ UNCHANGED <<disk, hist>>
    /\ wait' = Outcome(wait)
    /\ UNCHANGED <<fov_obj_list, last_op, rescue_plan, client, serial, fov_obj, pool, jobs, csv_rows>>

\* assign_masks_to_fovs(well_obj)
FlowAssignMasks ==
    /\ run.pc = "assign_masks"
    /\ LET fov_map == positive_fovs(fov_obj_list)
           already_assigned ==
               \A i \in fov_map : Len(fov_obj_list[i].tiff_paths[MASK_LABEL]) > 0
       IN IF fov_map = {} \/ already_assigned
          THEN UNCHANGED <<fov_obj_list, disk>>
          ELSE \E asc \in [well_grid -> BOOLEAN] :
                  /\ fov_obj_list' = assign_masks(fov_obj_list, disk, asc)
                  /\ disk' = to_json(disk, fov_obj_list')
    /\ run' = [run EXCEPT !.pc = "extract"]
    /\ hist' = Completed(hist, "mask_reconciliation")
    /\ UNCHANGED <<last_op, rescue_plan, client, serial, fov_obj, pool, wait, jobs, csv_rows>>

\* extract_measure_intensities: one worker per positive FOV.  A worker fails
\* on a FOV without two images and two masks; the pool either lets that
\* failure through or leaves the FOV out, and concatenating nothing fails.
FlowExtract ==
    /\ run.pc = "extract"
    /\ LET fovs == positive_fovs(fov_obj_list)
           ok == {i \in fovs : regionprops_ok(fov_obj_list[i], FALSE)}
       IN \E propagate \in BOOLEAN :
            IF ok = {} \/ (ok # fovs /\ propagate)
            THEN /\ run' = [run EXCEPT !.pc = "aborted"]
                 /\ hist' = [hist EXCEPT !.active = "measurement_extraction"]
                 /\ UNCHANGED <<disk, csv_rows>>
            ELSE /\ csv_rows' = [i \in well_grid |-> IF i \in ok THEN "rows" ELSE "none"]
                 /\ disk' = [disk EXCEPT !.csv = TRUE]
                 /\ run' = [run EXCEPT !.pc = "celltinder"]
                 /\ hist' = Completed(hist, "measurement_extraction")
    /\ UNCHANGED <<fov_obj_list, last_op, rescue_plan, client, serial, fov_obj, pool, wait, jobs>>

\* run_celltinder: the selection tool flags the objects to process; a FOV is
\* "selected" when at least one of its rows is flagged.
FlowCelltinder ==
    /\ run.pc = "celltinder"
    /\ \E S \in SUBSET {i \in well_grid : csv_rows[i] = "rows"} :
          csv_rows' = [i \in well_grid |->
                          IF csv_rows[i] = "none" THEN "none"
                          ELSE IF i \in S THEN "selected" ELSE "unselected"]
    /\ run' = [run EXCEPT !.pc = "stim_masks"]
    /\ hist' = Completed(hist, "selection_tool")
    /\ UNCHANGED <<fov_obj_list, disk, last_op, rescue_plan, client, serial, fov_obj, pool, wait, jobs>>

\* create_stim_masks: _process_one_fov on every positive FOV, then to_json.
\* The worker of a FOV with flagged rows may fail on its I/O, reading the
\* mask or writing the stim mask; the pool either lets the failure through,
\* which ends the run before to_json, or logs it and goes on.
FlowCreateStimMasks ==
    /\ run.pc = "stim_masks"
    /\ LET pos == positive_fovs(fov_obj_list)
           flagged == {i \in pos : csv_rows[i] = "selected"}
       IN \E read_fails \in SUBSET flagged, propagate \in BOOLEAN :
          \E write_fails \in SUBSET (flagged \ read_fails) :
            LET failed == read_fails \cup write_fails
                new == [i \in well_grid |->
                          IF i \notin pos THEN fov_obj_list[i]
                          ELSE IF i \in read_fails
                               THEN _process_one_fov_raises(fov_obj_list, i, "read")[i]
                          ELSE IF i \in write_fails
                               THEN _process_one_fov_raises(fov_obj_list, i, "write")[i]
                          ELSE _process_one_fov(fov_obj_list, i, csv_rows)[i]]
                written == {_bild_img_path(i, STIM_LABEL, 1) :
                                i \in positive_fovs(new) \ failed}
                files == [disk EXCEPT !.mask_files = @ \cup written]
            IN /\ fov_obj_list' = new
               /\ IF failed # {} /\ propagate
                  THEN /\ disk' = files
                       /\ run' = [run EXCEPT !.pc = "aborted"]
                       /\ hist' = [hist EXCEPT !.active = "stim_mask_generation",
                                               !.stim_failed = failed]
                  ELSE /\ disk' = to_json(files, new)
                       /\ run' = [run EXCEPT !.pc = IF run.control_loop THEN "control_1"
                                                    ELSE "illuminate_cells"]
                       /\ hist' = [Completed(hist, "stim_mask_generation")
                                      EXCEPT !.stim_failed = failed]
    /\ UNCHANGED <<last_op, rescue_plan, client, serial, fov_obj, pool, wait, jobs, csv_rows>>

\* illuminate_fovs between its two control loops: _illuminate_cells.
FlowIlluminateCells ==
    /\ run.pc = "illuminate_cells"
    /\ LET res == _illuminate_cells(fov_obj_list, disk) IN
       IF res.raised
       THEN /\ run' = [run EXCEPT !.pc = "aborted", !.illuminated = res.stimulated]
            /\ hist' = [hist EXCEPT !.active = "illumination"]
       ELSE /\ run' = [run EXCEPT !.illuminated = res.stimulated,
                                  !.pc = IF run.control_loop THEN "control_2"
                                         ELSE "update_control"]
            /\ hist' = IF run.control_loop
                       THEN [hist EXCEPT !.active = "illumination"]
                       ELSE Completed(hist, "illumination")
    /\ UNCHANGED <<fov_obj_list, disk, last_op, rescue_plan, client, serial, fov_obj, pool, wait, jobs, csv_rows>>

\* update_control_intensities: one worker per positive FOV, failing on a FOV
\* without two control images; concatenating nothing fails.  On success the
\* body of the loop over the wells is over.
FlowUpdateControl ==
    /\ run.pc = "update_control"
    /\ LET fovs == positive_fovs(fov_obj_list)
           ok == {i \in fovs : regionprops_ok(fov_obj_list[i], TRUE)}
       IN \E propagate \in BOOLEAN :
            IF ok = {} \/ (ok # fovs /\ propagate)
            THEN /\ run' = [run EXCEPT !.pc = "aborted"]
                 /\ hist' = [hist EXCEPT !.active = "control_update"]
            ELSE /\ run' = [run EXCEPT !.pc = after_well, !.well = @ + 1]
                 /\ hist' = Completed(hist, "control_update")
    /\ UNCHANGED <<fov_obj_list, disk, last_op, rescue_plan, client, serial, fov_obj, pool, wait, jobs, csv_rows>>

\* ------------------------------------------- specification: the engine
InitFlow ==
    /\ fov_obj_list = NoWell
    /\ disk = NoDisk
    /\ last_op = "none"
    /\ rescue_plan = NoPlan
    /\ wait = IdleWait
    /\ jobs = <<>>
    /\ csv_rows = NoRows
    /\ hist = NoHist
    /\ client = IdleClient
    /\ serial = IdleSerial
    /\ fov_obj = IdleFov
    /\ pool = IdlePool
    /\ \E engine \in Engines, refseg \in BOOLEAN, control_loop \in BOOLEAN,
          timeout \in 0..MaxTimeout :
          run = [IdleRun EXCEPT !.engine = engine, !.refseg = refseg,
                                !.control_loop = control_loop, !.timeout = timeout,
                                !.pc = "cleanup"]

NextFlow ==
    \/ FlowCleanup
    \/ FlowNewWell
    \/ FlowCapture
    \/ FlowImagingEnd
    \/ FlowLigandGate
    \/ WaitFirstPoll
    \/ WaitCheckTimeout
    \/ WaitSleep
    \/ WaitPoll
    \/ FlowAfterBarrier
    \/ FlowAssignMasks
    \/ FlowExtract
    \/ FlowCelltinder
    \/ FlowCreateStimMasks
    \/ FlowIlluminateCells
    \/ FlowUpdateControl

SpecFlow == InitFlow /\ [][NextFlow]_vars

\* ------------------------------------------------- job submission client
\* The values a setting the pipeline is to fill in can hold: None, the
\* declared default, or a value the pipeline supplied.
WellIds == {<<>>, <<"">>, <<"run_A1">>}
DstFolders == {<<>>, <<"">>, <<"inside_host_dir">>, <<"outside_host_dir">>}
TotalFovs == {<<>>} \cup {<<n>> : n \in 0..NumFovs}

NoPayload == [raised |-> TRUE, payload |-> <<>>]

\* _transform_path_for_container(Path(dst_folder)) with HOST_DIR set: the
\* empty path resolves to the working directory; a path outside HOST_DIR
\* raises ValueError, given here as <<>>.
container_dst(dst_folder, cwd_in_host) ==
    CASE dst_folder = "" -> IF cwd_in_host THEN <<"/data/cwd">> ELSE <<>>
      [] dst_folder = "inside_host_dir" -> <<"/data/inside_host_dir">>
      [] OTHER -> <<>>

\* build_payload: the required settings that are None.
missing(settings) ==
    {k \in {"well_id", "dst_folder", "total_fovs"} : settings[k] = <<>>}

\* build_payload(img_path, server_settings, bg_only=...)
build_payload(settings, bg_only, cwd_in_host) ==
    IF bg_only
    THEN [raised |-> FALSE,
          payload |-> <<[endpoint |-> "/process_bg_sub", well_id |-> <<>>,
                         dst_folder |-> <<>>, total_fovs |-> <<>>]>>]
    ELSE IF missing(settings) # {} THEN NoPayload
    ELSE LET dst == container_dst(settings.dst_folder[1], cwd_in_host) IN
         IF dst = <<>> THEN NoPayload
         ELSE [raised |-> FALSE,
               payload |-> <<[endpoint |-> "/process", well_id |-> settings.well_id,
                              dst_folder |-> dst, total_fovs |-> settings.total_fovs]>>]

\* The first statement of both clients: _transform_path_for_container(img_path)
\* raises ValueError without HOST_DIR or for an image outside it.
ClientTransformPath ==
    /\ client.pc = "transform"
    /\ client' = IF client.host_dir /\ client.img_in_host
                 THEN [client EXCEPT !.pc = "build"]
                 ELSE [client EXCEPT !.pc = "raised", !.error = "ValueError"]
    /\ UNCHANGED <<fov_obj_list, disk, last_op, rescue_plan, wait, run, jobs, csv_rows, hist, serial, fov_obj, pool>>

\* bg_removal_client / full_process_client: the build_payload call.
ClientBuildPayload ==
    /\ client.pc = "build"
    /\ LET res == build_payload(client.server_settings,
                                client.call = "bg_removal_client",
                                client.cwd_in_host)
       IN client' = IF res.raised
                    THEN [client EXCEPT !.pc = "raised", !.error = "ValueError"]
                    ELSE [client EXCEPT !.pc = "send", !.payload = res.payload]
    /\ UNCHANGED <<fov_obj_list, disk, last_op, rescue_plan, wait, run, jobs, csv_rows, hist, serial, fov_obj, pool>>

\* _send_to_process / _send_to_process_bg_sub: the payload is posted, then
\* raise_for_status.
ClientSend ==
    /\ client.pc = "send"
    /\ \E ok \in BOOLEAN :
          client' = [client EXCEPT !.posted = Append(@, client.payload[1]),
                                   !.pc = IF ok THEN "returned" ELSE "raised",
                                   !.error = IF ok THEN "none" ELSE "HTTPError"]
    /\ UNCHANGED <<fov_obj_list, disk, last_op, rescue_plan, wait, run, jobs, csv_rows, hist, serial, fov_obj, pool>>

\* One client call, with any server settings and any environment.
InitClient ==
    /\ fov_obj_list = NoWell
    /\ disk = NoDisk
    /\ last_op = "none"
    /\ rescue_plan = NoPlan
    /\ wait = IdleWait
    /\ run = IdleRun
    /\ jobs = <<>>
    /\ csv_rows = NoRows
    /\ hist = NoHist
    /\ serial = IdleSerial
    /\ fov_obj = IdleFov
    /\ pool = IdlePool
    /\ \E call \in {"bg_removal_client", "full_process_client"},
          well_id \in WellIds, dst_folder \in DstFolders, total_fovs \in TotalFovs,
          host_dir \in BOOLEAN, img_in_host \in BOOLEAN, cwd_in_host \in BOOLEAN :
          client = [IdleClient EXCEPT
                       !.call = call, !.pc = "transform",
                       !.server_settings = [well_id |-> well_id,
                                            dst_folder |-> dst_folder,
                                            total_fovs |-> total_fovs],
                       !.host_dir = host_dir, !.img_in_host = img_in_host,
                       !.cwd_in_host = cwd_in_host]

NextClient == ClientTransformPath \/ ClientBuildPayload \/ ClientSend

SpecClient == InitClient /\ [][NextClient]_vars

\* ------------------------------------------------------ persistence codec
\* The workflow sections above treat obj.json as holding the FOV list
\* (CustomJSONEncoder(fovs)).  This section follows the codec of
\* utils/serializers.py and Well.to_json / Well.from_json attribute by
\* attribute, on one Well object saved and then reloaded.
RunIds == {"host-a", "host-b"}

\* The instance numbers of the measure images registered on one FOV, in
\* registration order.
RegisteredInstances == {<<>>, <<1>>, <<1, 2>>, <<2, 1>>}

\* The names bound in the serializers module when it runs: Well and
\* FieldOfView are imported under TYPE_CHECKING only.
serializers_names == {"asdict", "json", "Path", "TYPE_CHECKING", "StageCoord"}

\* The dataclasses are declared with slots=True: their instances carry no
\* __dict__.
slots_classes == {"Well", "FieldOfView"}

\* The properties each class defines next to its fields.
properties(class) ==
    IF class = "FieldOfView" THEN {"well", "img_dir", "mask_dir"}
    ELSE {"positive_fovs", "well_obj_path", "well_id"}

\* A FieldOfView in memory: its dataclass fields.
FieldOfViewObject(i, flag, insts) ==
    [class |-> "FieldOfView",
     attrs |-> [well_dir |-> "A1_well", fov_coord |-> i, instance |-> i,
                contain_positive_cells |-> flag, fov_id |-> i,
                tiff_paths |-> [EmptyPaths EXCEPT !["measure"] =
                    [n \in DOMAIN insts |-> _bild_img_path(i, "measure", insts[n])]]]]

\* A Well in memory: its dataclass fields.
WellObject(run_id, flags, insts) ==
    [class |-> "Well",
     attrs |-> [run_dir |-> "run", run_id |-> run_id,
                well_grid |-> [i \in well_grid |-> i], well |-> "A1",
                well_dir |-> "A1_well", config_dir |-> "A1_config",
                img_dir |-> "A1_images", mask_dir |-> "A1_masks",
                csv_path |-> "A1_cell_data.csv",
                _fov_obj_list |-> [i \in well_grid |->
                    FieldOfViewObject(i, flags[i], insts[i])]]]

has_attr(obj, k) == k \in DOMAIN obj.attrs \/ k \in properties(obj.class)

get_attr(obj, k) ==
    IF k \in DOMAIN obj.attrs THEN obj.attrs[k]
    ELSE IF k = "well" THEN "A1" ELSE k

Raise(error) == [raised |-> TRUE, error |-> error]

Return(value) == [raised |-> FALSE, value |-> value]

\* The keys CustomJSONEncoder.default writes for a Well and for a FieldOfView,
\* each read from the attribute of the same name.
WellKeys ==
    {"run_dir", "well_grid", "well", "fov_obj_list", "well_dir", "config_dir",
     "img_dir", "mask_dir", "csv_path"}

FieldOfViewKeys ==
    {"fov_coord", "well", "instance", "contain_positive_cell", "fov_ID",
     "images_path", "masks_path"}

\* json writes the keys of a dict as strings; from_json turns the keys of
\* well_grid back into integers.
str_keys(grid) ==
    [k \in {ToString(i) : i \in DOMAIN grid} |->
        grid[CHOOSE i \in DOMAIN grid : ToString(i) = k]]

int_keys(grid) ==
    [i \in {n \in 0..(NumFovs + 1) : ToString(n) \in DOMAIN grid} |->
        grid[ToString(i)]]

\* CustomJSONEncoder.default on a FieldOfView.
default_FieldOfView(obj) ==
    IF \E k \in FieldOfViewKeys : ~has_attr(obj, k) THEN Raise("AttributeError")
    ELSE Return([tag |-> "__FieldOfView__",
                 body |-> [k \in FieldOfViewKeys |-> get_attr(obj, k)]])

\* CustomJSONEncoder.default on a Well, the encoder descending into the FOV
\* list it returned.
default_Well(obj) ==
    IF "Well" \notin serializers_names THEN Raise("NameError")
    ELSE IF \E k \in WellKeys : ~has_attr(obj, k) THEN Raise("AttributeError")
    ELSE LET list == get_attr(obj, "fov_obj_list") IN
         IF "FieldOfView" \notin serializers_names THEN Raise("NameError")
         ELSE IF \E i \in DOMAIN list : default_FieldOfView(list[i]).raised
              THEN Raise("AttributeError")
         ELSE Return([tag |-> "__Well__",
                      body |-> [k \in WellKeys |->
                          IF k = "fov_obj_list"
                          THEN [i \in DOMAIN list |-> default_FieldOfView(list[i]).value]
                          ELSE IF k = "well_grid" THEN str_keys(get_attr(obj, k))
                          ELSE get_attr(obj, k)]])

\* FieldOfView.from_dict, as custom_decoder calls it.
FieldOfView_from_dict(data) ==
    IF "FieldOfView" \notin serializers_names THEN Raise("NameError")
    ELSE IF "FieldOfView" \in slots_classes THEN Raise("AttributeError")
    ELSE Return([class |-> "FieldOfView", attrs |-> data])

\* Well.from_json on the content of the file.
from_json(file, doc) ==
    IF file = "absent" THEN Raise("FileNotFoundError")
    ELSE IF file = "empty" THEN Raise("JSONDecodeError")
    ELSE LET list == doc.body["fov_obj_list"] IN
         IF \E i \in DOMAIN list : FieldOfView_from_dict(list[i].body).raised
         THEN Raise((FieldOfView_from_dict(
                        list[CHOOSE i \in DOMAIN list : TRUE].body)).error)
         ELSE IF "Well" \in slots_classes THEN Raise("AttributeError")
         ELSE Return([class |-> "Well",
                      attrs |-> [k \in WellKeys |->
                          IF k = "fov_obj_list"
                          THEN [i \in DOMAIN list |->
                                  FieldOfView_from_dict(list[i].body).value]
                          ELSE IF k = "well_grid" THEN int_keys(doc.body[k])
                          ELSE doc.body[k]]])

\* Well.to_json: open the file for writing, which empties it, then dump the
\* Well through the encoder.
SerialToJson ==
    /\ serial.pc = "start"
    /\ LET out == default_Well(serial.obj[1]) IN
       serial' = IF out.raised
                 THEN [serial EXCEPT !.pc = "save_raised", !.file = "empty",
                                     !.error = out.error]
                 ELSE [serial EXCEPT !.pc = "saved", !.file = "written",
                                     !.doc = <<out.value>>]
    /\ UNCHANGED <<fov_obj_list, disk, last_op, rescue_plan, wait, run, jobs,
                   csv_rows, hist, client, fov_obj, pool>>

\* Well.from_json on the file to_json was writing.
SerialFromJson ==
    /\ serial.pc \in {"saved", "save_raised"}
    /\ LET out == from_json(serial.file,
                            IF serial.doc = <<>> THEN <<>> ELSE serial.doc[1]) IN
       serial' = IF out.raised
                 THEN [serial EXCEPT !.pc = "load_raised", !.error = out.error]
                 ELSE [serial EXCEPT !.pc = "loaded", !.loaded = <<out.value>>]
    /\ UNCHANGED <<fov_obj_list, disk, last_op, rescue_plan, wait, run, jobs,
                   csv_rows, hist, client, fov_obj, pool>>

InitSerial ==
    /\ fov_obj_list = _unpack_fov
    /\ disk = NoDisk
    /\ last_op = "none"
    /\ rescue_plan = NoPlan
    /\ wait = IdleWait
    /\ run = IdleRun
    /\ jobs = <<>>
    /\ csv_rows = NoRows
    /\ hist = NoHist
    /\ client = IdleClient
    /\ fov_obj = IdleFov
    /\ pool = IdlePool
    /\ \E run_id \in RunIds, flags \in [well_grid -> BOOLEAN],
          insts \in [well_grid -> RegisteredInstances] :
        serial = [IdleSerial EXCEPT !.pc = "start",
                                    !.obj = <<WellObject(run_id, flags, insts)>>]

NextSerial == SerialToJson \/ SerialFromJson

SpecSerial == InitSerial /\ [][NextSerial]_vars

\* ------------------------------------------- one FieldOfView's category map
\* The calls of FieldOfView on its tiff_paths, a defaultdict(list): a key
\* exists once it has been accessed with [], and a list is in the order of
\* the appends.
MaxRegistered == 3

fov_id == "A1P1"

FovIds == {"A1P1", "A1P2"}

\* The categories named in the calls: one of DEFAULT_CATEGORIES and one
\* outside them.
CallCategories == {"measure", "foo"}

\* Instance numbers as their decimal digits: 1, 2 and 10.
InstanceDigits == {<<1>>, <<2>>, <<1, 0>>}

\* A file stem is the sequence of its parts between underscores; a part
\* made of digits carries them.
Word(text) == [text |-> text, digits |-> <<>>]

Number(digits) == [text |-> "", digits |-> digits]

\* _CAT_INST_RE: "<category>_<digits>".
parse_category_instance(file_name) ==
    IF Len(file_name) = 2 /\ file_name[2].digits # <<>>
    THEN Return(<<file_name[1].text, file_name[2].digits>>)
    ELSE Raise("ValueError")

\* _IMG_FILE_RE on the stem of a path: "<fov_id>_<category>_<digits>".
parse_image_filename(stem) ==
    IF Len(stem) = 3 /\ stem[3].digits # <<>>
    THEN Return(<<stem[1].text, stem[2].text, stem[3].digits>>)
    ELSE Raise("ValueError")

\* The stem FieldOfView._bild_img_path gives the file of "<category>_<instance>".
build_img_stem(file_name) ==
    LET parsed == parse_category_instance(file_name) IN
    IF parsed.raised THEN parsed
    ELSE IF parsed.value[1] \notin DEFAULT_CATEGORIES THEN Raise("ValueError")
    ELSE Return(<<Word(fov_id)>> \o file_name)

\* tiff_paths[category].append(path) on the defaultdict.
append_path(paths, category, stem) ==
    [c \in DOMAIN paths \cup {category} |->
        IF c = category
        THEN Append(IF c \in DOMAIN paths THEN paths[c] ELSE <<>>, stem)
        ELSE paths[c]]

\* tiff_paths.get(category, [])
get_paths(paths, category) ==
    IF category \in DOMAIN paths THEN paths[category] ELSE <<>>

Registered(paths) ==
    LET RECURSIVE count(_)
        count(cats) ==
            IF cats = {} THEN 0
            ELSE LET c == CHOOSE x \in cats : TRUE IN
                 Len(paths[c]) + count(cats \ {c})
    IN count(DOMAIN paths)

\* The order of str on two digit strings, each followed by ".tif": a prefix
\* comes first ("1.tif" < "10.tif" < "2.tif").
RECURSIVE digits_less(_, _)
digits_less(a, b) ==
    IF a = <<>> THEN b # <<>>
    ELSE IF b = <<>> THEN FALSE
    ELSE IF Head(a) # Head(b) THEN Head(a) < Head(b)
    ELSE digits_less(Tail(a), Tail(b))

fov_rank(text) == IF text = "A1P1" THEN 1 ELSE 2

\* The order sorted() puts two paths of one category and one directory in:
\* the order of their file names as strings.
path_less(a, b) ==
    \/ fov_rank(a[1].text) < fov_rank(b[1].text)
    \/ a[1].text = b[1].text /\ digits_less(a[3].digits, b[3].digits)

\* tiff.imread(p): the image stored under p.
imread(stem) == [image_of |-> stem]

\* FieldOfView.load_images
load_images(paths, category) ==
    IF category \notin DEFAULT_CATEGORIES THEN Raise("ValueError")
    ELSE LET sorted == SortSeq(get_paths(paths, category), path_less) IN
         Return([n \in DOMAIN sorted |-> imread(sorted[n])])

\* The file names register_img_file is called with: well-formed ones and
\* one without an instance number.
FileNames ==
    {<<Word(c), Number(d)>> : c \in CallCategories, d \in InstanceDigits}
        \cup {<<Word("measure")>>}

\* The stems of the paths register_existing_tiff is called with.
ExistingStems ==
    {<<Word(f), Word(c), Number(d)>> :
        f \in FovIds, c \in CallCategories, d \in InstanceDigits}
        \cup {<<Word("A1P1"), Word("mask")>>}

FovRegisterImgFile ==
    /\ Registered(fov_obj.tiff_paths) < MaxRegistered
    /\ \E file_name \in FileNames :
        LET built == build_img_stem(file_name) IN
        IF built.raised
        THEN fov_obj' = [fov_obj EXCEPT !.call =
                [op |-> "register_img_file", raised |-> TRUE,
                 category |-> file_name[1].text, images |-> <<>>]]
        ELSE LET category == parse_image_filename(built.value).value[2] IN
             fov_obj' = [tiff_paths |->
                            append_path(fov_obj.tiff_paths, category, built.value),
                         call |-> [op |-> "register_img_file", raised |-> FALSE,
                                   category |-> category, images |-> <<>>]]
    /\ UNCHANGED <<fov_obj_list, disk, last_op, rescue_plan, wait, run, jobs,
                   csv_rows, hist, client, serial, pool>>

FovRegisterExistingTiff ==
    /\ Registered(fov_obj.tiff_paths) < MaxRegistered
    /\ \E stem \in ExistingStems :
        LET parsed == parse_image_filename(stem) IN
        IF parsed.raised
        THEN fov_obj' = [fov_obj EXCEPT !.call =
                [op |-> "register_existing_tiff", raised |-> TRUE,
                 category |-> stem[2].text, images |-> <<>>]]
        ELSE fov_obj' = [tiff_paths |->
                            append_path(fov_obj.tiff_paths, parsed.value[2], stem),
                         call |-> [op |-> "register_existing_tiff", raised |-> FALSE,
                                   category |-> parsed.value[2], images |-> <<>>]]
    /\ UNCHANGED <<fov_obj_list, disk, last_op, rescue_plan, wait, run, jobs,
                   csv_rows, hist, client, serial, pool>>

FovLoadImages ==
    /\ \E category \in DEFAULT_CATEGORIES \cup CallCategories :
        LET out == load_images(fov_obj.tiff_paths, category) IN
        fov_obj' = [fov_obj EXCEPT !.call =
            [op |-> "load_images", raised |-> out.raised, category |-> category,
             images |-> IF out.raised THEN <<>> ELSE out.value]]
    /\ UNCHANGED <<fov_obj_list, disk, last_op, rescue_plan, wait, run, jobs,
                   csv_rows, hist, client, serial, pool>>

InitFov ==
    /\ fov_obj_list = _unpack_fov
    /\ disk = NoDisk
    /\ last_op = "none"
    /\ rescue_plan = NoPlan
    /\ wait = IdleWait
    /\ run = IdleRun
    /\ jobs = <<>>
    /\ csv_rows = NoRows
    /\ hist = NoHist
    /\ client = IdleClient
    /\ serial = IdleSerial
    /\ fov_obj = IdleFov
    /\ pool = IdlePool

NextFov == FovRegisterImgFile \/ FovRegisterExistingTiff \/ FovLoadImages

SpecFov == InitFov /\ [][NextFov]_vars

\* --------------------------------------------------- mask reconciliation
\* assign_masks_to_fovs on the file names it finds under the masks directory.
\* Files are stems as in the section above; a FOV's registered masks are the
\* stems of the registered paths.
fov_name(i) == "A1P" \o ToString(i)

mask_stem(i, n) == <<Word(fov_name(i)), Word(MASK_LABEL), Number(<<n>>)>>

\* What the masks directory can hold: the masks 1 and 2 of every FOV, a stim
\* mask, a .tif without instance number and a mask of a FOV of another well.
OtherMaskDirFiles ==
    {<<Word(fov_name(1)), Word(STIM_LABEL), Number(<<1>>)>>,
     <<Word(fov_name(1)), Word(MASK_LABEL)>>,
     <<Word("B2P1"), Word(MASK_LABEL), Number(<<1>>)>>}

MaskDirFiles == {mask_stem(i, n) : i \in well_grid, n \in {1, 2}} \cup OtherMaskDirFiles

\* fov_map: the fov_ids of the positive FOVs.
fov_map(fovs) == {fov_name(i) : i \in positive_fovs(fovs)}

\* all(fov.tiff_paths.get(MASK_LABEL) for fov in fov_map.values())
AlreadyAssignedNever(fovs) == FALSE

already_assigned(fovs) ==
    \A i \in positive_fovs(fovs) : fovs[i].tiff_paths[MASK_LABEL] # <<>>

\* A scan whose parse error leaves the loop.
ScanMaskFileUncaught(keys, stem) ==
    LET parsed == parse_image_filename(stem) IN
    IF parsed.raised THEN "raise"
    ELSE IF parsed.value[2] # MASK_LABEL THEN "skip"
    ELSE IF parsed.value[1] \notin keys THEN "skip"
    ELSE "append"

\* The body of the scan loop on one file: the parse error is caught and the
\* file skipped, like a file of another category or of an unknown FOV.
scan_mask_file(keys, stem) ==
    LET parsed == parse_image_filename(stem) IN
    IF parsed.raised THEN "skip"
    ELSE IF parsed.value[2] # MASK_LABEL THEN "skip"
    ELSE IF parsed.value[1] \notin keys THEN "skip"
    ELSE "append"

\* fov_masks[fov_id] after the scan, in the order the listing gave the files:
\* lower instance first when asc.
fov_masks(files, keys, fid, asc) ==
    LET S == {s \in files : scan_mask_file(keys, s) = "append" /\ s[1].text = fid}
        lo == {s \in S : \A t \in S : ~digits_less(t[3].digits, s[3].digits)}
        hi == S \ lo
        seq(T) == IF T = {} THEN <<>> ELSE <<CHOOSE s \in T : TRUE>>
    IN IF asc THEN seq(lo) \o seq(hi) ELSE seq(hi) \o seq(lo)

\* The batch assignment: register_existing_tiff for every grouped path.
batch_assign(fovs, files, asc) ==
    [i \in DOMAIN fovs |->
        IF i \in positive_fovs(fovs)
        THEN [fovs[i] EXCEPT !.tiff_paths[MASK_LABEL] =
                @ \o fov_masks(files, fov_map(fovs), fov_name(i), asc[i])]
        ELSE fovs[i]]

NoPass == [pass |-> "none", outcome |-> "none"]

\* One call of assign_masks_to_fovs; pass names the call in last_op.
AssignMasksToFovs(pass) ==
    IF fov_map(fov_obj_list) = {} \/ already_assigned(fov_obj_list)
    THEN /\ last_op' = [pass |-> pass, outcome |-> "skipped"]
         /\ UNCHANGED <<fov_obj_list, disk>>
    ELSE IF \E s \in disk.mask_files :
                scan_mask_file(fov_map(fov_obj_list), s) = "raise"
    THEN /\ last_op' = [pass |-> pass, outcome |-> "raised"]
         /\ UNCHANGED <<fov_obj_list, disk>>
    ELSE \E asc \in [well_grid -> BOOLEAN] :
            /\ fov_obj_list' = batch_assign(fov_obj_list, disk.mask_files, asc)
            /\ disk' = to_json(disk, fov_obj_list')
            /\ last_op' = [pass |-> pass, outcome |-> "scanned"]

MasksAssign ==
    /\ last_op = NoPass
    /\ AssignMasksToFovs("first")
    /\ UNCHANGED <<rescue_plan, client, serial, fov_obj, pool, wait, run, jobs, csv_rows, hist>>

\* The same call made again on the same well.
MasksAssignAgain ==
    /\ last_op.pass = "first"
    /\ AssignMasksToFovs("again")
    /\ UNCHANGED <<rescue_plan, client, serial, fov_obj, pool, wait, run, jobs, csv_rows, hist>>

\* A well some time after imaging: any flags, mask 1 registered already or
\* not, any files under the masks directory, the JSON as last saved.
InitMasks ==
    /\ \E flags \in [well_grid -> BOOLEAN], prior \in [well_grid -> BOOLEAN],
          files \in SUBSET MaskDirFiles :
        /\ fov_obj_list = [i \in well_grid |->
              [contain_positive_cells |-> flags[i],
               tiff_paths |-> [EmptyPaths EXCEPT ![MASK_LABEL] =
                    IF prior[i] THEN <<mask_stem(i, 1)>> ELSE <<>>]]]
        /\ disk = [post_init_disk(NoDisk) EXCEPT !.mask_files = files,
                                        !.obj_json = CustomJSONEncoder(fov_obj_list)]
    /\ last_op = NoPass
    /\ rescue_plan = NoPlan
    /\ EngineIdle

NextMasks == MasksAssign \/ MasksAssignAgain

SpecMasks == InitMasks /\ [][NextMasks]_vars

\* ---------------------------------------------- before/after ratio table
\* _create_regionprops on the mean intensities regionprops_table measured in
\* the two frames of one FOV.  Here csv_rows holds that table: the measured
\* values, the threshold, and the DataFrame once it is built.
MaxIntensity == 3

CellLabels == {1, 2}

\* np.nan, and a quotient kept as numerator over denominator.
NaN == [nan |-> TRUE, num |-> 0, den |-> 0]

\* A table whose ratio is taken on the measured values, the threshold being
\* applied afterwards.
CreateRegionpropsRatioFirst(props0, propsn, true_cell_threshold) ==
    [label \in (DOMAIN props0) \cap (DOMAIN propsn) |->
        [before_stim |-> props0[label],
         after_stim |-> IF propsn[label] >= true_cell_threshold
                        THEN propsn[label] ELSE 0,
         ratio |-> IF props0[label] = 0 THEN NaN
                   ELSE [nan |-> FALSE, num |-> propsn[label], den |-> props0[label]]]]

\* _create_regionprops: inner merge of the two frames on the label,
\* after_stim kept where it is >= the threshold and set to 0 elsewhere, then
\* ratio = after_stim / before_stim.replace(0, nan).
_create_regionprops(props0, propsn, true_cell_threshold) ==
    LET merged == (DOMAIN props0) \cap (DOMAIN propsn)
        after_stim(label) == IF propsn[label] >= true_cell_threshold
                             THEN propsn[label] ELSE 0
        replaced(v) == IF v = 0 THEN NaN ELSE [nan |-> FALSE, num |-> v, den |-> 1]
        divide(a, b) == IF b.nan THEN NaN
                        ELSE [nan |-> FALSE, num |-> a, den |-> b.num]
    IN [label \in merged |->
          [before_stim |-> props0[label],
           after_stim |-> after_stim(label),
           ratio |-> divide(after_stim(label), replaced(props0[label]))]]

RatioCreateRegionprops ==
    /\ csv_rows.stage = "measured"
    /\ csv_rows' = [csv_rows EXCEPT
            !.stage = "table",
            !.df = _create_regionprops(csv_rows.props0, csv_rows.propsn,
                                       csv_rows.true_cell_threshold)]
    /\ UNCHANGED <<fov_obj_list, disk, last_op, rescue_plan, client, serial, fov_obj, pool,
                   wait, run, jobs, hist>>

\* Any mean intensities for the objects of the first frame, the second frame
\* holding all of them or only the first, and any threshold.
InitRatio ==
    /\ fov_obj_list = NoWell
    /\ disk = NoDisk
    /\ last_op = "none"
    /\ rescue_plan = NoPlan
    /\ wait = IdleWait
    /\ run = IdleRun
    /\ jobs = <<>>
    /\ hist = NoHist
    /\ client = IdleClient
    /\ serial = IdleSerial
    /\ fov_obj = IdleFov
    /\ pool = IdlePool
    /\ \E props0 \in [CellLabels -> 0..MaxIntensity],
          tracked \in {CellLabels, {1}},
          true_cell_threshold \in 0..(MaxIntensity + 1) :
        \E propsn \in [tracked -> 0..MaxIntensity] :
            csv_rows = [stage |-> "measured", props0 |-> props0, propsn |-> propsn,
                        true_cell_threshold |-> true_cell_threshold, df |-> <<>>]

NextRatio == RatioCreateRegionprops

SpecRatio == InitRatio /\ [][NextRatio]_vars

\* ------------------------------------------------ the per-FOV worker pools
\* create_stim_masks and update_control_intensities hand one task per
\* positive FOV to a pool; the workers run in any interleaving.  The control
\* loop is enabled.  csv_rows[i] is what the measurement file holds for FOV
\* i: "none", "rows", "selected" (a row flagged for processing), and the same
\* with the control columns added.
with_control(rows) ==
    IF rows = "rows" THEN "rows+control"
    ELSE IF rows = "selected" THEN "selected+control"
    ELSE rows

\* A FOV imaged in both rounds with both masks registered.
MeasuredFov(i) ==
    [contain_positive_cells |-> TRUE,
     tiff_paths |-> [EmptyPaths EXCEPT
        ![MEASURE_LABEL] = <<_bild_img_path(i, MEASURE_LABEL, 1),
                             _bild_img_path(i, MEASURE_LABEL, 2)>>,
        ![MASK_LABEL] = <<_bild_img_path(i, MASK_LABEL, 1),
                          _bild_img_path(i, MASK_LABEL, 2)>>]]

\* One temporary name whatever the final path.
TempPathShared(final_path) == [temp_of |-> _bild_img_path(0, STIM_LABEL, 1)]

\* imwrite_atomic: final_path.with_suffix(final_path.suffix + '.tmp')
temp_path(final_path) == [temp_of |-> final_path]

all_done == \A i \in pool.tasks : pool.pc[i] \in {"done", "raised"}

\* create_stim_masks up to the call of the pool: one task per positive FOV.
PoolStartStimMasks ==
    /\ pool.phase = "idle"
    /\ pool' = [pool EXCEPT !.phase = "stim",
                            !.tasks = positive_fovs(fov_obj_list),
                            !.pc = [i \in positive_fovs(fov_obj_list) |-> "start"]]
    /\ UNCHANGED <<fov_obj_list, disk, last_op, rescue_plan, wait, run, jobs,
                   csv_rows, hist, client, serial, fov_obj>>

\* _process_one_fov, first step: no flagged row clears the flag and ends the
\* worker; otherwise the last mask is loaded, filtered and eroded.
WorkerCheckRows(i) ==
    /\ pool.phase = "stim"
    /\ pool.pc[i] = "start"
    /\ IF csv_rows[i] # "selected"
       THEN /\ fov_obj_list' = _process_one_fov(fov_obj_list, i, csv_rows)
            /\ pool' = [pool EXCEPT !.pc[i] = "done"]
       ELSE /\ pool' = [pool EXCEPT !.pc[i] = "eroded"]
            /\ UNCHANGED fov_obj_list
    /\ UNCHANGED <<disk, last_op, rescue_plan, wait, run, jobs, csv_rows, hist,
                   client, serial, fov_obj>>

\* _process_one_fov: fov.register_img_file("stim_1").
WorkerRegister(i) ==
    /\ pool.phase = "stim"
    /\ pool.pc[i] = "eroded"
    /\ fov_obj_list' = _process_one_fov(fov_obj_list, i, csv_rows)
    /\ pool' = [pool EXCEPT !.pc[i] = "registered"]
    /\ UNCHANGED <<disk, last_op, rescue_plan, wait, run, jobs, csv_rows, hist,
                   client, serial, fov_obj>>

\* imwrite_atomic, first half: the image is written under the temporary name.
WorkerWriteTemp(i) ==
    /\ pool.phase = "stim"
    /\ pool.pc[i] = "registered"
    /\ pool' = [pool EXCEPT
            !.pc[i] = "temp_written",
            !.tmp = (temp_path(_bild_img_path(i, STIM_LABEL, 1)) :> i) @@ @]
    /\ UNCHANGED <<fov_obj_list, disk, last_op, rescue_plan, wait, run, jobs,
                   csv_rows, hist, client, serial, fov_obj>>

\* imwrite_atomic, second half: os.rename(temp_path, final_path); it fails
\* when the temporary file is not there.
WorkerRename(i) ==
    /\ pool.phase = "stim"
    /\ pool.pc[i] = "temp_written"
    /\ LET final == _bild_img_path(i, STIM_LABEL, 1)
           temp == temp_path(final)
       IN IF temp \in DOMAIN pool.tmp
          THEN /\ pool' = [pool EXCEPT
                      !.pc[i] = "done",
                      !.written = (final :> pool.tmp[temp]) @@ @,
                      !.tmp = [t \in (DOMAIN pool.tmp) \ {temp} |-> pool.tmp[t]]]
               /\ disk' = [disk EXCEPT !.mask_files = @ \cup {final}]
          ELSE /\ pool' = [pool EXCEPT !.pc[i] = "raised"]
               /\ UNCHANGED disk
    /\ UNCHANGED <<fov_obj_list, last_op, rescue_plan, wait, run, jobs, csv_rows,
                   hist, client, serial, fov_obj>>

\* create_stim_masks after the pool: the well is saved.  A worker that raised
\* either ends the call or is left out by the pool.
PoolFinishStimMasks ==
    /\ pool.phase = "stim"
    /\ all_done
    /\ \E propagate \in BOOLEAN :
        IF propagate /\ \E i \in pool.tasks : pool.pc[i] = "raised"
        THEN /\ pool' = [pool EXCEPT !.phase = "failed"]
             /\ UNCHANGED disk
        ELSE /\ pool' = [pool EXCEPT !.phase = "illuminate"]
             /\ disk' = to_json(disk, fov_obj_list)
    /\ UNCHANGED <<fov_obj_list, last_op, rescue_plan, wait, run, jobs, csv_rows,
                   hist, client, serial, fov_obj>>

\* illuminate_fovs with the control loop enabled: the two control images of
\* every positive FOV are registered and written.
PoolIlluminateFovs ==
    /\ pool.phase = "illuminate"
    /\ fov_obj_list' = [i \in DOMAIN fov_obj_list |->
            IF i \in positive_fovs(fov_obj_list)
            THEN register_img_file(register_img_file(fov_obj_list, i, CONTROL_LABEL, 1),
                                   i, CONTROL_LABEL, 2)[i]
            ELSE fov_obj_list[i]]
    /\ disk' = [disk EXCEPT !.img_files = @ \cup
            {_bild_img_path(i, CONTROL_LABEL, n) :
                i \in positive_fovs(fov_obj_list), n \in {1, 2}}]
    /\ pool' = [pool EXCEPT !.phase = "update_ready"]
    /\ UNCHANGED <<last_op, rescue_plan, wait, run, jobs, csv_rows, hist, client,
                   serial, fov_obj>>

\* update_control_intensities up to the call of the pool: the file is read
\* and one (fov, rows of the fov) task is built per FOV it was handed.
PoolStartUpdate ==
    /\ pool.phase = "update_ready"
    /\ pool' = [pool EXCEPT !.phase = "update",
                            !.tasks = positive_fovs(fov_obj_list),
                            !.pc = [i \in positive_fovs(fov_obj_list) |-> "start"],
                            !.results = <<>>]
    /\ UNCHANGED <<fov_obj_list, disk, last_op, rescue_plan, wait, run, jobs,
                   csv_rows, hist, client, serial, fov_obj>>

\* _worker / _update_regionprops: the rows of the FOV gain the control columns.
WorkerUpdateRegionprops(i) ==
    /\ pool.phase = "update"
    /\ pool.pc[i] = "start"
    /\ pool' = [pool EXCEPT !.pc[i] = "done",
                            !.results = (i :> with_control(csv_rows[i])) @@ @]
    /\ UNCHANGED <<fov_obj_list, disk, last_op, rescue_plan, wait, run, jobs,
                   csv_rows, hist, client, serial, fov_obj>>

\* update_control_intensities after the pool: the results are concatenated
\* and written over the measurement file; concatenating nothing fails.
PoolFinishUpdate ==
    /\ pool.phase = "update"
    /\ all_done
    /\ IF pool.tasks = {}
       THEN /\ pool' = [pool EXCEPT !.phase = "failed"]
            /\ UNCHANGED csv_rows
       ELSE /\ pool' = [pool EXCEPT !.phase = "finished"]
            /\ csv_rows' = [i \in well_grid |->
                    IF i \in DOMAIN pool.results THEN pool.results[i] ELSE "none"]
    /\ UNCHANGED <<fov_obj_list, disk, last_op, rescue_plan, wait, run, jobs,
                   hist, client, serial, fov_obj>>

\* A well after cell selection: every FOV measured; the measurement file
\* holds no row of a FOV, or rows flagged for processing or not.
InitWorkers ==
    /\ fov_obj_list = [i \in well_grid |-> MeasuredFov(i)]
    /\ disk = [FreshDisk(fov_obj_list) EXCEPT
            !.csv = TRUE,
            !.img_files = {_bild_img_path(i, MEASURE_LABEL, n) :
                                i \in well_grid, n \in {1, 2}},
            !.mask_files = {_bild_img_path(i, MASK_LABEL, n) :
                                i \in well_grid, n \in {1, 2}}]
    /\ last_op = "none"
    /\ rescue_plan = NoPlan
    /\ wait = IdleWait
    /\ run = IdleRun
    /\ jobs = <<>>
    /\ csv_rows \in [well_grid -> {"none", "rows", "selected"}]
    /\ hist = NoHist
    /\ client = IdleClient
    /\ serial = IdleSerial
    /\ fov_obj = IdleFov
    /\ pool = IdlePool

NextWorkers ==
    \/ PoolStartStimMasks
    \/ \E i \in well_grid : i \in pool.tasks /\ WorkerCheckRows(i)
    \/ \E i \in well_grid : i \in pool.tasks /\ WorkerRegister(i)
    \/ \E i \in well_grid : i \in pool.tasks /\ WorkerWriteTemp(i)
    \/ \E i \in well_grid : i \in pool.tasks /\ WorkerRename(i)
    \/ PoolFinishStimMasks
    \/ PoolIlluminateFovs
    \/ PoolStartUpdate
    \/ \E i \in well_grid : i \in pool.tasks /\ WorkerUpdateRegionprops(i)
    \/ PoolFinishUpdate

SpecWorkers == InitWorkers /\ [][NextWorkers]_vars

\* ------------------------------------------- the after-acquisition rescue
\* after_acquisition_rescue walks the saved wells: it sends the images of the
\* positive FOVs of a well to the service again, waits on the barrier and
\* analyses the well.  run.well is the well at hand, run.cursor the number of
\* images of the running loop already sent, run.positive the number of
\* positive FOVs of each saved well; jobs are the posted payloads and
\* hist.done the barrier and analysis calls made, in order.
well_name(w) == "A" \o ToString(w)

\* Well.run_id and Well.well_id: "<run_id>_<well_name>".
well_run_id == "run"
well_well_id(w) == well_run_id \o "_" \o well_name(w)

\* The for-statement over well_objs reaches well w.
enter_well(r, w) ==
    IF w > NumWells
    THEN [r EXCEPT !.pc = "done", !.well = w, !.cursor = 0]
    ELSE [r EXCEPT !.pc = "measure", !.well = w, !.cursor = 0]

\* The payload a client posts: only /process payloads carry a well_id, the
\* one found in the server settings.
resend_job(w, bg_only) ==
    [well |-> w,
     endpoint |-> IF bg_only THEN "/process_bg_sub" ELSE "/process",
     well_id |-> IF bg_only THEN <<>> ELSE client.server_settings.well_id]

\* cleanup_stale() on entry.
ResendCleanup ==
    /\ run.pc = "cleanup"
    /\ run' = enter_well(run, 1)
    /\ hist' = [hist EXCEPT !.cleanup_calls = @ + 1]
    /\ UNCHANGED <<fov_obj_list, disk, last_op, rescue_plan, wait, jobs, csv_rows,
                   client, serial, fov_obj, pool>>

\* One turn of the loop over measure_paths: bg_removal_client with the
\* reference channel, full_process_client without; a client that raises ends
\* the rescue.
ResendMeasure ==
    /\ run.pc = "measure"
    /\ run.cursor < run.positive[run.well]
    /\ \E ok \in BOOLEAN :
        IF ok
        THEN /\ jobs' = Append(jobs, resend_job(run.well, run.refseg))
             /\ run' = [run EXCEPT !.cursor = @ + 1]
        ELSE /\ run' = [run EXCEPT !.pc = "raised"]
             /\ UNCHANGED jobs
    /\ UNCHANGED <<fov_obj_list, disk, last_op, rescue_plan, wait, csv_rows, hist,
                   client, serial, fov_obj, pool>>

\* The loop over measure_paths is over.
ResendMeasureEnd ==
    /\ run.pc = "measure"
    /\ run.cursor = run.positive[run.well]
    /\ run' = [run EXCEPT !.pc = IF run.refseg THEN "refseg" ELSE "barrier",
                          !.cursor = 0]
    /\ UNCHANGED <<fov_obj_list, disk, last_op, rescue_plan, wait, jobs, csv_rows,
                   hist, client, serial, fov_obj, pool>>

\* One turn of the loop over refseg_paths: full_process_client.
ResendRefseg ==
    /\ run.pc = "refseg"
    /\ run.cursor < run.positive[run.well]
    /\ \E ok \in BOOLEAN :
        IF ok
        THEN /\ jobs' = Append(jobs, resend_job(run.well, FALSE))
             /\ run' = [run EXCEPT !.cursor = @ + 1]
        ELSE /\ run' = [run EXCEPT !.pc = "raised"]
             /\ UNCHANGED jobs
    /\ UNCHANGED <<fov_obj_list, disk, last_op, rescue_plan, wait, csv_rows, hist,
                   client, serial, fov_obj, pool>>

\* The loop over refseg_paths is over: `continue` goes to the next well.
ResendRefsegEnd ==
    /\ run.pc = "refseg"
    /\ run.cursor = run.positive[run.well]
    /\ run' = enter_well(run, run.well + 1)
    /\ UNCHANGED <<fov_obj_list, disk, last_op, rescue_plan, wait, jobs, csv_rows,
                   hist, client, serial, fov_obj, pool>>

\* wait_for_completion(well_obj.run_id, timeout=...): it returns or times out.
ResendBarrier ==
    /\ run.pc = "barrier"
    /\ hist' = [hist EXCEPT !.done = Append(@,
                    [step |-> "wait_for_completion", well |-> run.well,
                     well_id |-> <<well_run_id>>])]
    /\ \E finished \in BOOLEAN :
        run' = [run EXCEPT !.pc = IF finished THEN "analysis" ELSE "raised"]
    /\ UNCHANGED <<fov_obj_list, disk, last_op, rescue_plan, wait, jobs, csv_rows,
                   client, serial, fov_obj, pool>>

\* _execute_well_analysis(a1_manager, settings, well_obj), then the next well.
ResendAnalysis ==
    /\ run.pc = "analysis"
    /\ hist' = [hist EXCEPT !.done = Append(@,
                    [step |-> "_execute_well_analysis", well |-> run.well,
                     well_id |-> <<>>])]
    /\ run' = enter_well(run, run.well + 1)
    /\ UNCHANGED <<fov_obj_list, disk, last_op, rescue_plan, wait, jobs, csv_rows,
                   client, serial, fov_obj, pool>>

\* The rescue is called on saved wells with any number of positive FOVs, the
\* reference channel on or off, and server settings that hold the default
\* well_id or the one a pipeline run left there.
InitResend ==
    /\ fov_obj_list = NoWell
    /\ disk = NoDisk
    /\ last_op = "none"
    /\ rescue_plan = NoPlan
    /\ wait = IdleWait
    /\ jobs = <<>>
    /\ csv_rows = NoRows
    /\ hist = NoHist
    /\ serial = IdleSerial
    /\ fov_obj = IdleFov
    /\ pool = IdlePool
    /\ \E well_id \in {"", well_well_id(1)} :
          client = [IdleClient EXCEPT !.server_settings.well_id = <<well_id>>]
    /\ \E do_refseg \in BOOLEAN, positive \in [1..NumWells -> 0..NumFovs] :
          run = [engine |-> "after_acquisition_rescue", refseg |-> do_refseg,
                 pc |-> "cleanup", well |-> 0, cursor |-> 0, positive |-> positive]

NextResend ==
    \/ ResendCleanup
    \/ ResendMeasure
    \/ ResendMeasureEnd
    \/ ResendRefseg
    \/ ResendRefsegEnd
    \/ ResendBarrier
    \/ ResendAnalysis

SpecResend == InitResend /\ [][NextResend]_vars

\* ------------------------------------------------- one image of one FOV
\* _image_all_fov calls _take_image_fov for every positive FOV, and a second
\* time with the reference channel.  run.cursor counts the FOVs done, run.sub
\* names the channel at hand, run.step is the position inside _take_image_fov.
\* The process can be killed between any two steps.  pool.tmp and
\* pool.written hold what the temporary and the final names contain:
\* "partial" while the write is under way, "complete" after it.

\* A routine that posts the job before it writes the image.
TakeImageSubmitFirst ==
    <<"snap_image", "start_processing", "imwrite_begin", "imwrite_end",
      "rename", "add_image">>

\* The statements of _take_image_fov in order, imwrite_atomic unfolded.
take_image_steps ==
    <<"snap_image", "imwrite_begin", "imwrite_end", "rename", "add_image",
      "start_processing">>

at_step(name) ==
    /\ run.pc = "imaging"
    /\ run.cursor < Cardinality(positive_fovs(fov_obj_list))
    /\ take_image_steps[run.step] = name

\* The image _take_image_fov is taking.
img_path_at(r) ==
    _bild_img_path(nth_positive(fov_obj_list, r.cursor + 1),
                   IF r.sub = "refseg" THEN REFSEG_LABEL ELSE MEASURE_LABEL, 1)

\* The next statement; after the last one the loop body goes on with the
\* reference channel of the same FOV or with the next FOV.
next_step(r) ==
    IF r.step < Len(take_image_steps) THEN [r EXCEPT !.step = @ + 1]
    ELSE IF r.sub = "primary" /\ r.refseg
         THEN [r EXCEPT !.step = 1, !.sub = "refseg"]
         ELSE [r EXCEPT !.step = 1, !.sub = "primary", !.cursor = @ + 1]

\* Stage positioning, optical configuration and snap_image.
CaptureSnapImage ==
    /\ at_step("snap_image")
    /\ run' = next_step(run)
    /\ UNCHANGED <<fov_obj_list, disk, last_op, rescue_plan, wait, jobs, csv_rows,
                   hist, client, serial, fov_obj, pool>>

\* imwrite(temp_path, ...) starts: the temporary name holds a partial file.
CaptureImwriteBegin ==
    /\ at_step("imwrite_begin")
    /\ pool' = [pool EXCEPT !.tmp = (temp_path(img_path_at(run)) :> "partial") @@ @]
    /\ run' = next_step(run)
    /\ UNCHANGED <<fov_obj_list, disk, last_op, rescue_plan, wait, jobs, csv_rows,
                   hist, client, serial, fov_obj>>

\* imwrite(temp_path, ...) returns: the temporary file is complete.
CaptureImwriteEnd ==
    /\ at_step("imwrite_end")
    /\ pool' = [pool EXCEPT !.tmp = (temp_path(img_path_at(run)) :> "complete") @@ @]
    /\ run' = next_step(run)
    /\ UNCHANGED <<fov_obj_list, disk, last_op, rescue_plan, wait, jobs, csv_rows,
                   hist, client, serial, fov_obj>>

\* os.rename(temp_path, final_path): the final name takes over the file; with
\* no temporary file the call raises.
CaptureRename ==
    /\ at_step("rename")
    /\ LET final == img_path_at(run)
           temp == temp_path(final)
       IN IF temp \in DOMAIN pool.tmp
          THEN /\ pool' = [pool EXCEPT
                      !.written = (final :> pool.tmp[temp]) @@ @,
                      !.tmp = [t \in (DOMAIN pool.tmp) \ {temp} |-> pool.tmp[t]]]
               /\ disk' = [disk EXCEPT !.img_files = @ \cup {final}]
               /\ run' = next_step(run)
          ELSE /\ run' = [run EXCEPT !.pc = "crashed"]
               /\ UNCHANGED <<pool, disk>>
    /\ UNCHANGED <<fov_obj_list, last_op, rescue_plan, wait, jobs, csv_rows, hist,
                   client, serial, fov_obj>>

\* fov_obj.add_image(imaging_loop, img_path): the path is registered.
CaptureAddImage ==
    /\ at_step("add_image")
    /\ LET p == img_path_at(run)
       IN fov_obj_list' = register_img_file(fov_obj_list, p.fov, p.cat, p.inst)
    /\ run' = next_step(run)
    /\ UNCHANGED <<disk, last_op, rescue_plan, wait, jobs, csv_rows, hist, client,
                   serial, fov_obj, pool>>

\* _build_payload and start_processing: the job is posted.
CaptureStartProcessing ==
    /\ at_step("start_processing")
    /\ jobs' = Append(jobs, [file |-> img_path_at(run), kind |-> "full_process",
                             well |-> run.well])
    /\ run' = next_step(run)
    /\ UNCHANGED <<fov_obj_list, disk, last_op, rescue_plan, wait, csv_rows, hist,
                   client, serial, fov_obj, pool>>

\* The loop over the positive FOVs is over.
CaptureLoopEnd ==
    /\ run.pc = "imaging"
    /\ run.cursor = Cardinality(positive_fovs(fov_obj_list))
    /\ run' = [run EXCEPT !.pc = "done"]
    /\ UNCHANGED <<fov_obj_list, disk, last_op, rescue_plan, wait, jobs, csv_rows,
                   hist, client, serial, fov_obj, pool>>

\* The process is killed.
CaptureCrash ==
    /\ run.pc = "imaging"
    /\ run' = [run EXCEPT !.pc = "crashed"]
    /\ UNCHANGED <<fov_obj_list, disk, last_op, rescue_plan, wait, jobs, csv_rows,
                   hist, client, serial, fov_obj, pool>>

\* A fresh well with any flags, the reference channel on or off.
InitCapture ==
    /\ fov_obj_list \in [well_grid -> {NewFov, [NewFov EXCEPT !.contain_positive_cells = FALSE]}]
    /\ disk = FreshDisk(fov_obj_list)
    /\ last_op = "none"
    /\ rescue_plan = NoPlan
    /\ wait = IdleWait
    /\ jobs = <<>>
    /\ csv_rows = NoRows
    /\ hist = NoHist
    /\ client = IdleClient
    /\ serial = IdleSerial
    /\ fov_obj = IdleFov
    /\ pool = IdlePool
    /\ \E use_refseg_channel \in BOOLEAN :
          run = [engine |-> "_image_all_fov", refseg |-> use_refseg_channel,
                 pc |-> "imaging", well |-> 1, cursor |-> 0, sub |-> "primary",
                 step |-> 1]

NextCaptureSteps ==
    \/ CaptureSnapImage
    \/ CaptureImwriteBegin
    \/ CaptureImwriteEnd
    \/ CaptureRename
    \/ CaptureAddImage
    \/ CaptureStartProcessing
    \/ CaptureLoopEnd
    \/ CaptureCrash

SpecCapture == InitCapture /\ [][NextCaptureSteps]_vars

\* ------------------------------------------ resuming the workflow of a well
\* run_from_round1 and run_from_round2 take up the workflow of one saved
\* well.  run.engine names the entry point, run.fov_ids is <<>> for None and
\* <<S>> for the list S of requested FOVs; hist.done lists the steps carried
\* out, in order.

\* "Optional list of specific FOV IDs to image. If None, all positive FOVs
\* will be imaged."
imaging_targets(fovs, fov_ids) ==
    IF fov_ids = <<>> THEN positive_fovs(fovs)
    ELSE positive_fovs(fovs) \cap fov_ids[1]

\* The well after image_fovs(..., "measure_<inst>", fov_ids).
imaged(fovs, fov_ids, inst) ==
    [i \in DOMAIN fovs |->
        IF i \in imaging_targets(fovs, fov_ids)
        THEN register_img_file(fovs, i, MEASURE_LABEL, inst)[i]
        ELSE fovs[i]]

\* The statement after cleanup_stale() in each entry point.
after_cleanup(engine) ==
    IF engine = "run_from_round1" THEN "scan_round1" ELSE "returned"

\* with ComposeManager(): cleanup_stale()
ResumeCleanup ==
    /\ run.pc = "cleanup"
    /\ hist' = [hist EXCEPT !.done = Append(@, "cleanup_stale"),
                            !.cleanup_calls = @ + 1]
    /\ run' = [run EXCEPT !.pc = after_cleanup(run.engine)]
    /\ UNCHANGED <<fov_obj_list, disk, last_op, rescue_plan, wait, jobs, csv_rows,
                   client, serial, fov_obj, pool>>

\* scan_round1(a1_manager, settings, well_obj, fov_ids)
ResumeScanRound1 ==
    /\ run.pc = "scan_round1"
    /\ fov_obj_list' = imaged(fov_obj_list, run.fov_ids, 1)
    /\ disk' = [disk EXCEPT !.img_files = @ \cup
            {_bild_img_path(i, MEASURE_LABEL, 1) :
                i \in imaging_targets(fov_obj_list, run.fov_ids)}]
    /\ hist' = [hist EXCEPT !.done = Append(@, "round1_imaging")]
    /\ run' = [run EXCEPT !.pc = "prompt"]
    /\ UNCHANGED <<last_op, rescue_plan, wait, jobs, csv_rows, client, serial,
                   fov_obj, pool>>

\* scan_round2: prompt_to_continue(ADD_LIGAND_PROMPT); quitting raises
\* PipelineQuit, which the entry point raises again.
ResumePrompt ==
    /\ run.pc = "prompt"
    /\ \E ans \in {"continue", "quit"} :
          run' = [run EXCEPT !.pc = IF ans = "continue" THEN "scan_round2"
                                     ELSE "raised"]
    /\ hist' = [hist EXCEPT !.done = Append(@, "ligand_gate")]
    /\ UNCHANGED <<fov_obj_list, disk, last_op, rescue_plan, wait, jobs, csv_rows,
                   client, serial, fov_obj, pool>>

\* scan_round2: image_fovs(..., "measure_2", fov_ids), called without fov_ids.
ResumeScanRound2 ==
    /\ run.pc = "scan_round2"
    /\ fov_obj_list' = imaged(fov_obj_list, <<>>, 2)
    /\ disk' = [disk EXCEPT !.img_files = @ \cup
            {_bild_img_path(i, MEASURE_LABEL, 2) :
                i \in imaging_targets(fov_obj_list, <<>>)}]
    /\ hist' = [hist EXCEPT !.done = Append(@, "round2_imaging")]
    /\ run' = [run EXCEPT !.pc = "barrier"]
    /\ UNCHANGED <<last_op, rescue_plan, wait, jobs, csv_rows, client, serial,
                   fov_obj, pool>>

\* scan_round2: wait_for_completion(well_obj.well_id, timeout=...).
ResumeBarrier ==
    /\ run.pc = "barrier"
    /\ \E finished \in BOOLEAN :
          run' = [run EXCEPT !.pc = IF finished THEN "select_cells" ELSE "raised"]
    /\ hist' = [hist EXCEPT !.done = Append(@, "completion_barrier")]
    /\ UNCHANGED <<fov_obj_list, disk, last_op, rescue_plan, wait, jobs, csv_rows,
                   client, serial, fov_obj, pool>>

\* select_cells(settings, well_obj)
ResumeSelectCells ==
    /\ run.pc = "select_cells"
    /\ hist' = [hist EXCEPT !.done = Append(@, "cell_selection")]
    /\ run' = [run EXCEPT !.pc = "illuminate"]
    /\ UNCHANGED <<fov_obj_list, disk, last_op, rescue_plan, wait, jobs, csv_rows,
                   client, serial, fov_obj, pool>>

\* illuminate(a1_manager, settings, well_obj)
ResumeIlluminate ==
    /\ run.pc = "illuminate"
    /\ hist' = [hist EXCEPT !.done = Append(@, "illumination")]
    /\ run' = [run EXCEPT !.pc = "returned"]
    /\ UNCHANGED <<fov_obj_list, disk, last_op, rescue_plan, wait, jobs, csv_rows,
                   client, serial, fov_obj, pool>>

\* Either entry point is called on a saved well with any flags and any
\* fov_ids; for run_from_round2 the round-1 images of the positive FOVs are
\* there and registered.
InitResume ==
    /\ \E engine \in {"run_from_round1", "run_from_round2"},
          flags \in [well_grid -> BOOLEAN],
          fov_ids \in {<<>>} \cup {<<S>> : S \in SUBSET well_grid} :
        LET fresh == [i \in well_grid |->
                        [NewFov EXCEPT !.contain_positive_cells = flags[i]]]
            fovs == IF engine = "run_from_round2" THEN imaged(fresh, <<>>, 1)
                    ELSE fresh
        IN /\ fov_obj_list = fovs
           /\ disk = [FreshDisk(fovs) EXCEPT !.img_files =
                    IF engine = "run_from_round2"
                    THEN {_bild_img_path(i, MEASURE_LABEL, 1) : i \in positive_fovs(fovs)}
                    ELSE {}]
           /\ run = [engine |-> engine, pc |-> "cleanup", fov_ids |-> fov_ids]
    /\ last_op = "none"
    /\ rescue_plan = NoPlan
    /\ wait = IdleWait
    /\ jobs = <<>>
    /\ csv_rows = NoRows
    /\ hist = NoHist
    /\ client = IdleClient
    /\ serial = IdleSerial
    /\ fov_obj = IdleFov
    /\ pool = IdlePool

NextResume ==
    \/ ResumeCleanup
    \/ ResumeScanRound1
    \/ ResumePrompt
    \/ ResumeScanRound2
    \/ ResumeBarrier
    \/ ResumeSelectCells
    \/ ResumeIlluminate

SpecResume == InitResume /\ [][NextResume]_vars

\* --------------------------------------------------------------- claims
Round2Evidence == \E f \in disk.img_files : f.inst = 2

\* C1: whenever at least one round-2 file (measure_2 or refseg_2) is in the
\* images directory, the action returned by assess_rescue is neither
\* continue_round1 nor ready_for_round2.
C1_NoRound1AfterStimulation ==
    (rescue_plan # NoPlan /\ Round2Evidence)
        => rescue_plan.action \notin {"continue_round1", "ready_for_round2"}

C1_Witness ==
    /\ rescue_plan # NoPlan
    /\ Round2Evidence
    /\ rescue_plan.action = "analyze_complete_pairs_only"

RescueStatuses ==
    {"continue_round1", "ready_for_round2", "continue_round2",
     "analyze_complete_pairs_only", "complete"}

\* C2: every assessed state (any flags, any files, an absent images directory
\* included) gets one of the five statuses, never "unknown", and the action of
\* the plan equals the status of the scanning state.
C2_ExactlyOneStatus ==
    rescue_plan # NoPlan =>
        /\ rescue_plan.action \in RescueStatuses
        /\ rescue_plan.action = rescue_plan.scanning_state.status

C2_Witness ==
    /\ rescue_plan # NoPlan
    /\ ~disk.img_dir
    /\ rescue_plan.action = "continue_round1"

\* Some artifact of the well (an image, a mask, the measurement file, the
\* persisted JSON, a sub-directory) exists before the step and not after it.
ArtifactDestroyed ==
    \/ disk.img_files \ disk'.img_files # {}
    \/ disk.mask_files \ disk'.mask_files # {}
    \/ disk.csv /\ ~disk'.csv
    \/ disk.obj_json # NoFile /\ disk'.obj_json = NoFile
    \/ disk.config_dir /\ ~disk'.config_dir
    \/ disk.img_dir /\ ~disk'.img_dir
    \/ disk.mask_dir /\ ~disk'.mask_dir

C6_BarrierTimesOut ==
    (wait.has_timeout /\ [](wait.last_status # "finished" /\ wait.pc # "http_error"))
        => <>(wait.pc = "timeout_error")

C6_Witness ==
    /\ wait.pc = "timeout_error"
    /\ wait.has_timeout
    /\ wait.timeout = MaxTimeout
    /\ wait.last_status = "processing"
    /\ wait.sleeps > 1

\* C8: an answer 'finished' makes the call return normally, never with a
\* timeout error, whatever answers came before it; and when the very first
\* answer is 'finished' the call has made one request and has not slept.
C8_FinishedReturns ==
    /\ wait.last_status = "finished" => wait.pc = "returned"
    /\ wait.pc = "timeout_error" => wait.last_status # "finished"
    /\ wait.first_status = "finished" => (wait.polls = 1 /\ wait.sleeps = 0)

C8_Witness ==
    /\ wait.pc = "returned"
    /\ wait.first_status = "processing"
    /\ wait.total = MaxRemaining
    /\ wait.remaining < wait.total
    /\ wait.sleeps > 1

\* Step s of the current well has begun (it is running or has completed).
StepStarted(s) ==
    hist.active = s \/ \E k \in 1..Len(hist.done) : hist.done[k] = s

IsRound2Image(f) == f.inst = 2 /\ f.cat \in {MEASURE_LABEL, REFSEG_LABEL}

\* C3: once the operator has answered 'quit' at the ligand prompt, the well
\* gets no round-2 image and no round-2 job, and neither round-2 imaging nor
\* the completion barrier nor any later step begins for it.
C3_QuitStopsWell ==
    run.answer = "quit" =>
        /\ \A f \in disk.img_files : ~IsRound2Image(f)
        /\ \A k \in 1..Len(jobs) : ~IsRound2Image(jobs[k].file)
        /\ \A s \in {"round2_imaging", "completion_barrier", "mask_reconciliation",
                     "measurement_extraction", "selection_tool",
                     "stim_mask_generation", "illumination"} : ~StepStarted(s)

PersistingSteps ==
    {"round1_imaging", "round2_imaging", "mask_reconciliation", "stim_mask_generation"}

\* C5: when round-1 imaging, round-2 imaging, mask reconciliation or stim-mask
\* generation has just completed (no later step has touched the well yet), the
\* persisted JSON is the encoding of the in-memory well.
C5_PersistedAfterEveryStep ==
    (/\ hist.done # <<>>
     /\ hist.done[Len(hist.done)] \in PersistingSteps
     /\ hist.active \in {"none", "completion_barrier"})
        => disk.obj_json = CustomJSONEncoder(fov_obj_list)

PostBarrierSteps ==
    {"mask_reconciliation", "measurement_extraction", "selection_tool",
     "stim_mask_generation", "illumination", "control_update"}

\* C7: wait_for_completion has returned normally only if the last answer it
\* saw was 'finished' ('processing' with nothing remaining, or another status,
\* does not end it), and a step after the barrier has begun only if the call
\* returned that way.
C7_ReturnsOnlyOnFinished ==
    /\ wait.pc = "returned" => wait.last_status = "finished"
    /\ (\E s \in PostBarrierSteps : StepStarted(s))
          => (wait.pc = "returned" /\ wait.last_status = "finished")

C7_Witness ==
    /\ StepStarted("mask_reconciliation")
    /\ wait.pc = "returned"
    /\ wait.saw_zero

\* C9 as stated: every well that has received a job had exactly one cleanup
\* call issued for it, after the jobs of the well before it and before its own
\* first job.
C9_CleanupOncePerWell ==
    \A w \in hist.wells_with_jobs : hist.first_job_cleanups[w] = 1

\* C9: a run issues exactly one cleanup call, before the first job of its
\* first well; no cleanup call comes between the jobs of one well and the
\* first job of the next.
C9_CleanupOncePerRun ==
    /\ hist.cleanup_calls <= 1
    /\ hist.wells_with_jobs # {} => hist.cleanup_calls = 1
    /\ \A w \in hist.wells_with_jobs :
          hist.first_job_cleanups[w] = IF w = 1 THEN 1 ELSE 0

C9_Witness ==
    /\ 2 \in hist.wells_with_jobs
    /\ hist.cleanup_calls = 1
    /\ Len(jobs) > 0

IsPrefix(s, t) == Len(s) <= Len(t) /\ \A k \in 1..Len(s) : s[k] = t[k]

\* C10: the steps completed for the current well are an initial part of the
\* order round-1 imaging, ligand gate, round-2 imaging, completion barrier,
\* mask reconciliation, measurement extraction, selection tool, stim-mask
\* generation, illumination (so none has run twice), and a running step is
\* the one that follows the last completed one.
C10_StepsInOrder ==
    /\ IsPrefix(hist.done, StepOrder)
    /\ hist.active # "none" =>
          /\ Len(hist.done) < Len(StepOrder)
          /\ hist.active = StepOrder[Len(hist.done) + 1]

C10_Witness ==
    /\ run.well = NumWells + 1
    /\ hist.done = StepOrder
    /\ run.illuminated # {}
\* The FOVs the assessor expects: the well's still-eligible FOVs.
ExpectedFovs == positive_fovs(fov_obj_list)

\* Both files of round r of FOV i are in the images directory.
HasPairOnDisk(i, r) ==
    /\ disk.img_dir
    /\ [fov |-> i, cat |-> MEASURE_LABEL, inst |-> r] \in disk.img_files
    /\ [fov |-> i, cat |-> REFSEG_LABEL, inst |-> r] \in disk.img_files

\* C11: the assessor answers ready_for_round2 exactly when every expected
\* FOV has its complete round-1 pair and no round-2 file exists, whatever
\* files are in the images directory, files of FOVs that are no longer
\* expected included.
C11_ReadyIffRound1Complete ==
    rescue_plan # NoPlan =>
        ((rescue_plan.action = "ready_for_round2")
            <=> ((\A i \in ExpectedFovs : HasPairOnDisk(i, 1)) /\ ~Round2Evidence))

\* The expected FOVs whose pair of round r is not complete on disk.
ExpectedLacking(r) == {i \in ExpectedFovs : ~HasPairOnDisk(i, r)}

\* C12: when every expected FOV has its complete round-1 pair, round-2 files
\* exist and some expected FOV lacks its complete round-2 pair, the action is
\* continue_round2 and missing_fovs is exactly the set of expected FOVs
\* lacking a complete round-2 pair.
C12_ContinueRound2NamesMissing ==
    (/\ rescue_plan # NoPlan
     /\ ExpectedLacking(1) = {}
     /\ Round2Evidence
     /\ ExpectedLacking(2) # {})
        => /\ rescue_plan.action = "continue_round2"
           /\ rescue_plan.details.missing_fovs = ExpectedLacking(2)

\* C13: when no round-2 file exists and some expected FOV lacks its complete
\* round-1 pair, the action is continue_round1 and missing_fovs is exactly
\* the set of expected FOVs lacking a complete round-1 pair (all of them when
\* the images directory does not exist).
C13_ContinueRound1NamesMissing ==
    (/\ rescue_plan # NoPlan
     /\ ~Round2Evidence
     /\ ExpectedLacking(1) # {})
        => /\ rescue_plan.action = "continue_round1"
           /\ rescue_plan.details.missing_fovs = ExpectedLacking(1)

\* C14: when round-2 files exist and round 1 is incomplete, the action is
\* analyze_complete_pairs_only and fov_list is exactly the set of expected
\* FOVs with a complete pair in both rounds (complete_pairs is its size).
C14_AnalyzeListsCompletePairs ==
    (/\ rescue_plan # NoPlan
     /\ Round2Evidence
     /\ ExpectedLacking(1) # {})
        => /\ rescue_plan.action = "analyze_complete_pairs_only"
           /\ rescue_plan.details.fov_list =
                (ExpectedFovs \ ExpectedLacking(1)) \ ExpectedLacking(2)

\* FOV i is complete for round r under the reference-channel setting: its
\* measure file exists and, when the reference channel is enabled, its
\* refseg file as well.
CompleteBySetting(i, r) ==
    /\ [fov |-> i, cat |-> MEASURE_LABEL, inst |-> r] \in disk.img_files
    /\ run.refseg => [fov |-> i, cat |-> REFSEG_LABEL, inst |-> r] \in disk.img_files

\* C15: the complete pair follows the reference-channel setting: the expected
\* FOVs the assessor counts as missing for round 1 are those lacking the
\* measure file or, with the reference channel enabled only, the refseg file.
C15_PairFollowsRefsegSetting ==
    (rescue_plan # NoPlan /\ disk.img_dir)
        => rescue_plan.scanning_state.actual_images.missing_round1
              = {i \in ExpectedFovs : ~CompleteBySetting(i, 1)}

\* The action and the sets of FOVs a rescue plan names.
PlanAnswer(plan) ==
    <<plan.action, plan.details.missing_fovs, plan.details.fov_list>>

NoStimMask(i) == Len(fov_obj_list[i].tiff_paths[STIM_LABEL]) = 0

\* C17: illumination never performs the stimulation exposure for a FOV
\* without a registered stim mask; when a positive FOV has none, illumination
\* raises at the first such FOV and no later FOV of the well is stimulated.
C17_NoStimulationWithoutMask ==
    [][run.pc = "illuminate_cells" =>
          /\ \A j \in run'.illuminated : ~NoStimMask(j)
          /\ \A i \in positive_fovs(fov_obj_list) :
                NoStimMask(i) =>
                    /\ run'.pc = "aborted"
                    /\ \A j \in run'.illuminated : j < i]_vars

C17_Witness ==
    /\ run.pc = "aborted"
    /\ hist.active = "illumination"
    /\ run.illuminated # {}
    /\ \E i \in positive_fovs(fov_obj_list) : NoStimMask(i)

C19_RoutingFollowsRefseg ==
    \A k \in 1..Len(jobs) :
        LET job == jobs[k] IN
        /\ (run.refseg /\ job.file.cat = MEASURE_LABEL) => job.kind = "bg_only"
        /\ (run.refseg /\ job.file.cat = REFSEG_LABEL) => job.kind = "full_process"
        /\ (~run.refseg /\ job.file.cat = MEASURE_LABEL) => job.kind = "full_process"
        /\ ~run.refseg => job.kind # "bg_only"

\* The server settings still hold an unset default (or None) for a setting
\* the pipeline is to supply.
HoldsUnsetDefault(settings) ==
    \E k \in {"well_id", "dst_folder", "total_fovs"} :
        settings[k] = <<>> \/ settings[k] = ServerDefaults[k]

\* C20: when total_fovs (or well_id or dst_folder) still holds its unset
\* default, building the full-process payload raises: no payload is built and
\* no job is posted.
C20_UnsetSettingsFailFast ==
    (client.call = "full_process_client" /\ HoldsUnsetDefault(client.server_settings))
        => (client.payload = <<>> /\ client.posted = <<>>)

\* The well directory a construction is to leave: the three sub-directories
\* exist, images and masks are empty, there is no measurement file, and the
\* persisted JSON is that of a Well whose FOVs are all fresh.
FreshWellDir ==
    [well_dir |-> TRUE, config_dir |-> TRUE, img_dir |-> TRUE, mask_dir |-> TRUE,
     obj_json |-> CustomJSONEncoder(_unpack_fov), csv |-> FALSE,
     img_files |-> {}, mask_files |-> {}]

C22_RoundTripLossless ==
    serial.pc \in {"loaded", "load_raised"}
        => (serial.pc = "loaded" /\ serial.loaded = serial.obj)


\* C23: after any sequence of register_img_file and register_existing_tiff
\* calls on a FOV, failed calls included, every key of its category map is
\* one of the five categories and every registered path is
\* <fov_id>_<category>_<instance> of that FOV and that category.
C23_CategoryMapClosed ==
    /\ DOMAIN fov_obj.tiff_paths \subseteq DEFAULT_CATEGORIES
    /\ \A c \in DOMAIN fov_obj.tiff_paths :
        \A n \in DOMAIN fov_obj.tiff_paths[c] :
            LET stem == fov_obj.tiff_paths[c][n] IN
            /\ Len(stem) = 3
            /\ stem[1].text = fov_id
            /\ stem[2].text = c
            /\ stem[3].digits # <<>>

\* C24: load_images returns one image per registered path of the category,
\* in the order the paths were registered.
C24_LoadInRegistrationOrder ==
    (fov_obj.call.op = "load_images" /\ ~fov_obj.call.raised)
        => LET paths == get_paths(fov_obj.tiff_paths, fov_obj.call.category) IN
           fov_obj.call.images = [n \in DOMAIN paths |-> imread(paths[n])]

\* C25: load_images on one of the five categories that has no registered
\* path fails instead of returning an empty sequence.
C25_LoadOfEmptyCategoryFails ==
    (/\ fov_obj.call.op = "load_images"
     /\ fov_obj.call.category \in DEFAULT_CATEGORIES
     /\ get_paths(fov_obj.tiff_paths, fov_obj.call.category) = <<>>)
        => fov_obj.call.raised


\* C26: the FieldOfView records of a Well are exactly the entries of its
\* coordinate grid, one per entry, after construction and after every
\* imaging, registration, mask reconciliation, stim-mask generation and
\* persistence step; a FOV is excluded through its flag only, and what is
\* persisted lists the same FOVs.
C26_FovsAreTheGridEntries ==
    /\ fov_obj_list # NoWell => DOMAIN fov_obj_list = well_grid
    /\ disk.obj_json # NoFile => DOMAIN disk.obj_json.fov_obj_list = well_grid

C26_Witness ==
    /\ run.pc = "illuminate_cells"
    /\ DOMAIN fov_obj_list = well_grid
    /\ \E i \in well_grid : ~fov_obj_list[i].contain_positive_cells
    /\ \E i \in well_grid :
        /\ Len(fov_obj_list[i].tiff_paths[MASK_LABEL]) > 0
        /\ Len(fov_obj_list[i].tiff_paths[STIM_LABEL]) > 0
    /\ disk.obj_json = CustomJSONEncoder(fov_obj_list)


\* The well-formed mask files of FOV i among the files of the masks directory.
WellFormedMasks(files, i) ==
    {s \in files : /\ Len(s) = 3
                   /\ s[1].text = fov_name(i)
                   /\ s[2].text = MASK_LABEL
                   /\ s[3].digits # <<>>}

C28_ReconciliationNoOpOnReentry ==
    [][(/\ last_op' # last_op
        /\ \A i \in positive_fovs(fov_obj_list) :
              fov_obj_list[i].tiff_paths[MASK_LABEL] # <<>>)
       => /\ last_op'.outcome = "skipped"
          /\ fov_obj_list' = fov_obj_list
          /\ disk' = disk]_vars

C28_Witness ==
    /\ last_op = [pass |-> "again", outcome |-> "skipped"]
    /\ positive_fovs(fov_obj_list) = well_grid
    /\ \A i \in well_grid :
        /\ fov_obj_list[i].tiff_paths[MASK_LABEL] = <<mask_stem(i, 1), mask_stem(i, 2)>>
        /\ WellFormedMasks(disk.mask_files, i) = {mask_stem(i, 1), mask_stem(i, 2)}
    /\ disk.obj_json = CustomJSONEncoder(fov_obj_list)


\* C29: with the control loop disabled no control image is registered for the
\* well and the workflow of the well does not end in an error of the step
\* that follows the illumination.
C29_DisabledControlLoopEndsCleanly ==
    (run.pc # "idle" /\ ~run.control_loop /\ fov_obj_list # NoWell)
        => /\ \A i \in well_grid : fov_obj_list[i].tiff_paths[CONTROL_LABEL] = <<>>
           /\ ~(run.pc = "aborted" /\ hist.active = "control_update")


\* C30: in the table of a FOV every object measured in both frames has
\* after_stim = the measured value where it reaches the threshold and 0
\* below it, and ratio = that after_stim over before_stim; a before_stim of 0
\* gives an undefined ratio, never 0 and never a failure.
C30_RatioAfterThreshold ==
    csv_rows.stage = "table"
        => /\ DOMAIN csv_rows.df = (DOMAIN csv_rows.props0) \cap (DOMAIN csv_rows.propsn)
           /\ \A label \in DOMAIN csv_rows.df :
                LET row == csv_rows.df[label]
                    before == csv_rows.props0[label]
                    after == csv_rows.propsn[label]
                    kept == IF after < csv_rows.true_cell_threshold THEN 0 ELSE after
                IN /\ row.after_stim = kept
                   /\ row.ratio.nan <=> before = 0
                   /\ before # 0 => (row.ratio.num = kept /\ row.ratio.den = before)

\* An object with before_stim = 0 and a kept after_stim next to an object
\* whose after_stim is positive, below the threshold and forced to 0.
C30_Witness ==
    /\ csv_rows.stage = "table"
    /\ \E a, b \in DOMAIN csv_rows.df :
        /\ csv_rows.props0[a] = 0
        /\ csv_rows.propsn[a] >= csv_rows.true_cell_threshold
        /\ csv_rows.propsn[a] > 0
        /\ csv_rows.df[a].ratio = NaN
        /\ csv_rows.props0[b] > 0
        /\ csv_rows.propsn[b] > 0
        /\ csv_rows.propsn[b] < csv_rows.true_cell_threshold
        /\ csv_rows.df[b].ratio = [nan |-> FALSE, num |-> 0, den |-> csv_rows.props0[b]]


\* C31: in a well with the control loop enabled, a control image is
\* registered only once the illumination of every positive FOV of the well
\* is over.
C31_ControlAfterIllumination ==
    (/\ fov_obj_list # NoWell
     /\ run.control_loop
     /\ \E i \in well_grid : fov_obj_list[i].tiff_paths[CONTROL_LABEL] # <<>>)
        => /\ run.pc \notin {"control_1", "illuminate_cells"}
           /\ positive_fovs(fov_obj_list) \subseteq run.illuminated


\* C32: within a well, a FOV whose flag is false keeps it false, gets no new
\* registered path (no image, no stim mask), no new job and no illumination
\* in any later step.
C32_ExcludedFovStaysOut ==
    [][(fov_obj_list # NoWell /\ fov_obj_list' # NoWell /\ run.pc # "new_well")
       => \A i \in well_grid :
            ~fov_obj_list[i].contain_positive_cells
                => /\ fov_obj_list'[i] = fov_obj_list[i]
                   /\ i \notin (run'.illuminated \ run.illuminated)
                   /\ \A k \in (Len(jobs) + 1)..Len(jobs') : jobs'[k].file.fov # i
                   /\ \A f \in (disk'.img_files \cup disk'.mask_files)
                                 \ (disk.img_files \cup disk.mask_files) : f.fov # i]_vars

C32_Witness ==
    /\ run.pc = "update_control"
    /\ run.control_loop
    /\ \E i, j \in well_grid :
        /\ ~fov_obj_list[i].contain_positive_cells
        /\ fov_obj_list[i].tiff_paths[CONTROL_LABEL] = <<>>
        /\ fov_obj_list[i].tiff_paths[STIM_LABEL] = <<>>
        /\ i \notin run.illuminated
        /\ i < j
        /\ j \in run.illuminated
        /\ Len(fov_obj_list[j].tiff_paths[CONTROL_LABEL]) = 2


\* The workers of create_stim_masks run one after another in grid order.
RECURSIVE stim_masks_in_turn(_, _, _)
stim_masks_in_turn(fovs, todo, rows) ==
    IF todo = {} THEN fovs
    ELSE LET i == CHOOSE k \in todo : \A m \in todo : k <= m
         IN stim_masks_in_turn(_process_one_fov(fovs, i, rows), todo \ {i}, rows)

\* The table update_control_intensities writes when its workers run one
\* after another.
control_table_in_turn(fovs, rows) ==
    [i \in well_grid |->
        IF i \in positive_fovs(fovs) THEN with_control(rows[i]) ELSE "none"]

C34_NoSharedWrite ==
    /\ \A i \in pool.tasks : pool.pc[i] # "raised"
    /\ \A t \in DOMAIN pool.tmp : pool.tmp[t] = t.temp_of.fov
    /\ \A f \in DOMAIN pool.written : pool.written[f] = f.fov
    /\ pool.phase = "illuminate"
        => /\ fov_obj_list = stim_masks_in_turn(
                    [i \in well_grid |-> MeasuredFov(i)], well_grid, csv_rows)
           /\ \A i \in well_grid :
                csv_rows[i] = "selected"
                    <=> _bild_img_path(i, STIM_LABEL, 1) \in DOMAIN pool.written

C34_OwnWritesOnly ==
    /\ (pool.phase \in {"stim", "update"} /\ pool'.phase = pool.phase)
        => /\ \A j \in well_grid :
                fov_obj_list'[j] # fov_obj_list[j] => pool'.pc[j] # pool.pc[j]
           /\ \A f \in (DOMAIN pool'.written) \ (DOMAIN pool.written) :
                pool'.pc[f.fov] # pool.pc[f.fov]
           /\ \A f \in (DOMAIN pool'.tmp) \ (DOMAIN pool.tmp) :
                pool'.pc[f.temp_of.fov] # pool.pc[f.temp_of.fov]
    /\ csv_rows' # csv_rows
        => /\ \A i \in pool.tasks : pool.pc[i] = "done"
           /\ csv_rows' = control_table_in_turn(fov_obj_list, csv_rows)

\* C34: the per-FOV workers of stim-mask generation and of the measurement
\* update are race-free: a worker changes only the flag, the registered paths
\* and the files of its own FOV, no temporary or final path is written by two
\* workers, the measurement file is written only once every worker is done,
\* and in every interleaving the well and the merged table are those of the
\* workers run one after another.
C34_WorkersRaceFree == []C34_NoSharedWrite /\ [][C34_OwnWritesOnly]_vars

C34_Witness ==
    /\ pool.phase = "finished"
    /\ \A i \in well_grid :
        /\ _bild_img_path(i, STIM_LABEL, 1) \in DOMAIN pool.written
        /\ fov_obj_list[i].tiff_paths[STIM_LABEL] # <<>>
        /\ csv_rows[i] = "selected+control"


\* C36: writing the control intensities never drops data: whenever
\* update_control_intensities writes the measurement file, every FOV that had
\* rows in it before still has them, with the control columns added, also a
\* FOV whose flag was cleared during stim-mask generation.
C36_UpdateKeepsRows ==
    [][csv_rows' # csv_rows
        => \A i \in well_grid :
             csv_rows[i] # "none" => csv_rows'[i] = with_control(csv_rows[i])]_vars


no_mask_twice(fovs) ==
    \A i \in DOMAIN fovs :
        LET masks == fovs[i].tiff_paths[MASK_LABEL]
        IN \A a, b \in 1..Len(masks) : masks[a] = masks[b] => a = b

\* C35: mask reconciliation is idempotent: a second call of
\* assign_masks_to_fovs right after a first one, on the same masks directory,
\* leaves every FOV's registered masks as the first call left them, also when
\* an eligible FOV has no mask file, and no FOV holds a mask path twice.
C35_ReconciliationIdempotent ==
    [][(last_op.pass = "first" /\ last_op'.pass = "again")
        => /\ \A i \in well_grid :
                fov_obj_list'[i].tiff_paths[MASK_LABEL]
                    = fov_obj_list[i].tiff_paths[MASK_LABEL]
           /\ no_mask_twice(fov_obj_list')]_vars


\* C38: a "continue" rescue action names work to do: when assess_rescue
\* returns continue_round1 or continue_round2, its missing_fovs is not empty
\* and holds expected (positive) FOVs only, whatever files are present.
C38_ContinueNamesWork ==
    rescue_plan.action \in {"continue_round1", "continue_round2"}
        => /\ rescue_plan.details.missing_fovs # {}
           /\ rescue_plan.details.missing_fovs \subseteq positive_fovs(fov_obj_list)


\* C37: in the after-acquisition rescue, once the rescue has gone through the
\* wells, every well with a job sent to the service was then awaited on the
\* barrier and analysed after that, with the reference channel or without,
\* and the barrier polled the well identifier the well's /process jobs carry.
C37_ResentWellsAwaitedAndAnalysed ==
    (run.engine = "after_acquisition_rescue" /\ run.pc = "done")
        => \A k \in 1..Len(jobs) :
             \E a, b \in 1..Len(hist.done) :
                /\ a < b
                /\ hist.done[a].step = "wait_for_completion"
                /\ hist.done[a].well = jobs[k].well
                /\ jobs[k].endpoint = "/process"
                        => hist.done[a].well_id = jobs[k].well_id
                /\ hist.done[b].step = "_execute_well_analysis"
                /\ hist.done[b].well = jobs[k].well


\* C39: an image is dispatched only once it is complete and registered: at
\* every moment, also after a crash, every posted job names a file that is
\* present and complete under its final name and registered on its FOV, and
\* a final name never holds a partial file.
C39_DispatchAfterWriteAndRegister ==
    /\ \A f \in DOMAIN pool.written : pool.written[f] = "complete"
    /\ \A k \in 1..Len(jobs) :
        LET f == jobs[k].file IN
        /\ f \in disk.img_files
        /\ f \in DOMAIN pool.written
        /\ \E n \in 1..Len(fov_obj_list[f.fov].tiff_paths[f.cat]) :
                fov_obj_list[f.fov].tiff_paths[f.cat][n] = f

C39_Witness ==
    /\ run.engine = "_image_all_fov"
    /\ run.pc = "crashed"
    /\ Len(jobs) = 1
    /\ \E t \in DOMAIN pool.tmp : pool.tmp[t] = "partial"


\* C40: run_from_round2 on a well whose round 1 is complete carries out the
\* rest of the workflow: when it has returned, round-2 imaging, the
\* completion barrier, cell selection and illumination have been done, in
\* that order.
C40_RunFromRound2DoesTheRest ==
    (run.engine = "run_from_round2" /\ run.pc = "returned")
        => \E a, b, c, d \in 1..Len(hist.done) :
             /\ a < b /\ b < c /\ c < d
             /\ hist.done[a] = "round2_imaging"
             /\ hist.done[b] = "completion_barrier"
             /\ hist.done[c] = "cell_selection"
             /\ hist.done[d] = "illumination"

====
